---- MODULE Spec2Model ----
(***************************************************************************)
(* Federation client core of mutiny-core: the storage adapter              *)
(* (FedimintStorage / IndexedDBPseudoTransaction) and the payment          *)
(* reconciliation of FederationClient, modelled from federation.rs.        *)
(***************************************************************************)
EXTENDS Integers, Sequences, FiniteSets, TLC

(***************************************************************************)
(* Bounds of the model.                                                    *)
(***************************************************************************)
\* number of write calls (insert, remove, remove_by_prefix) in one run
MaxWrites == 2
\* number of commit attempts in one run
MaxCommits == 2
\* number of entries the operation log of the embedded client can hold
MaxOps == 2
\* number of FederationClient calls in one run
MaxCalls == 2
\* number of states on an update stream handed to process_outcome
MaxStream == 3
\* highest version of a stored snapshot
MaxVersion == 2
\* number of wallet seeds
MaxSeed == 2
\* number of invoices paid in a run with periodic sweeps
MaxPaid == 1

(***************************************************************************)
(* Program constants.                                                      *)
(***************************************************************************)
FEDIMINT_OPERATIONS_LIST_MAX == 100

(***************************************************************************)
(* Byte strings, ordered as BTreeMap<Vec<u8>, _> orders them.              *)
(***************************************************************************)
KeySet == {<<1>>, <<1, 2>>, <<2>>}
ValSet == {<<7>>, <<8, 9>>}
PrefixSet == {<<>>, <<1>>, <<2>>}

RECURSIVE BytesLess(_, _)
BytesLess(a, b) ==
    IF a = <<>> THEN b # <<>>
    ELSE IF b = <<>> THEN FALSE
    ELSE IF Head(a) # Head(b) THEN Head(a) < Head(b)
    ELSE BytesLess(Tail(a), Tail(b))

StartsWith(k, p) == Len(p) <= Len(k) /\ SubSeq(k, 1, Len(p)) = p

EmptyMap == [k \in {} |-> <<>>]

MapPut(m, k, v) == [x \in DOMAIN m \cup {k} |-> IF x = k THEN v ELSE m[x]]

MapDel(m, k) == [x \in DOMAIN m \ {k} |-> m[x]]

MinKey(ks) == CHOOSE k \in ks : \A o \in ks \ {k} : BytesLess(k, o)

RECURSIVE SortedKeys(_)
SortedKeys(ks) ==
    IF ks = {} THEN <<>>
    ELSE LET k == MinKey(ks) IN <<k>> \o SortedKeys(ks \ {k})

Reverse(s) == [i \in 1..Len(s) |-> s[Len(s) + 1 - i]]

(***************************************************************************)
(* The snapshot encoding: bincode of Vec<(Vec<u8>, Vec<u8>)>, then hex,    *)
(* then a JSON string (commit_tx), and the decoding of FedimintStorage::new.*)
(***************************************************************************)
RECURSIVE LEBytes(_, _)
LEBytes(n, width) ==
    IF width = 0 THEN <<>> ELSE <<n % 256>> \o LEBytes(n \div 256, width - 1)

\* a u64 length in bincode's fixed-width little-endian form
U64LE(n) == LEBytes(n, 8)

BincodeBytes(b) == U64LE(Len(b)) \o b

RECURSIVE BincodePairs(_)
BincodePairs(pairs) ==
    IF pairs = <<>> THEN <<>>
    ELSE BincodeBytes(Head(pairs)[1]) \o BincodeBytes(Head(pairs)[2])
         \o BincodePairs(Tail(pairs))

BincodeSerialize(pairs) == U64LE(Len(pairs)) \o BincodePairs(pairs)

HexChars == <<"0", "1", "2", "3", "4", "5", "6", "7",
              "8", "9", "a", "b", "c", "d", "e", "f">>

RECURSIVE HexEncode(_)
HexEncode(bytes) ==
    IF bytes = <<>> THEN <<>>
    ELSE <<HexChars[(Head(bytes) \div 16) + 1], HexChars[(Head(bytes) % 16) + 1]>>
         \o HexEncode(Tail(bytes))

JsonString(s) == [type |-> "String", s |-> s]

DecodeError == [ok |-> FALSE]

HexUpper == <<"A", "B", "C", "D", "E", "F">>

IsHexChar(c) ==
    \/ \E i \in 1..16 : HexChars[i] = c
    \/ \E i \in 1..6 : HexUpper[i] = c

HexVal(c) ==
    IF \E i \in 1..16 : HexChars[i] = c
    THEN (CHOOSE i \in 1..16 : HexChars[i] = c) - 1
    ELSE (CHOOSE i \in 1..6 : HexUpper[i] = c) + 9

RECURSIVE HexBytes(_)
HexBytes(s) ==
    IF s = <<>> THEN <<>>
    ELSE <<HexVal(s[1]) * 16 + HexVal(s[2])>> \o HexBytes(SubSeq(s, 3, Len(s)))

FromHex(s) ==
    IF Len(s) % 2 # 0 \/ \E i \in 1..Len(s) : ~IsHexChar(s[i])
    THEN DecodeError
    ELSE [ok |-> TRUE, bytes |-> HexBytes(s)]

RECURSIVE ReadLE(_, _, _)
ReadLE(bytes, pos, n) ==
    IF n = 0 THEN 0 ELSE bytes[pos] + 256 * ReadLE(bytes, pos + 1, n - 1)

\* a u64 length at pos; a length whose upper five bytes are not zero is
\* larger than any input and reads as Len(bytes) + 1
ReadU64(bytes, pos) ==
    IF \E i \in 3..7 : bytes[pos + i] # 0 THEN Len(bytes) + 1
    ELSE ReadLE(bytes, pos, 3)

\* a length-prefixed byte string at pos: [ok, val, next]
ReadBytes(bytes, pos) ==
    IF pos + 7 > Len(bytes) THEN DecodeError
    ELSE LET n == ReadU64(bytes, pos) IN
         IF pos + 7 + n > Len(bytes) THEN DecodeError
         ELSE [ok |-> TRUE, val |-> SubSeq(bytes, pos + 8, pos + 7 + n),
               next |-> pos + 8 + n]

RECURSIVE ReadPairs(_, _, _)
ReadPairs(bytes, pos, n) ==
    IF n = 0 THEN [ok |-> TRUE, pairs |-> <<>>]
    ELSE LET k == ReadBytes(bytes, pos) IN
         IF ~k.ok THEN DecodeError
         ELSE LET v == ReadBytes(bytes, k.next) IN
              IF ~v.ok THEN DecodeError
              ELSE LET rest == ReadPairs(bytes, v.next, n - 1) IN
                   IF ~rest.ok THEN DecodeError
                   ELSE [ok |-> TRUE, pairs |-> <<<<k.val, v.val>>>> \o rest.pairs]

\* a decoder that would read every input as an empty list
DeserializeAsEmpty(bytes) == [ok |-> TRUE, pairs |-> <<>>]

BincodeDeserialize(bytes) ==
    IF Len(bytes) < 8 THEN DecodeError
    ELSE ReadPairs(bytes, 9, ReadU64(bytes, 1))

(***************************************************************************)
(* State.                                                                  *)
(***************************************************************************)
VARIABLES
    ext,            \* external KV: the value under fedimints/<federation_id>
    mem,            \* fedimint_memory: the committed in-memory map
    version,        \* federation_version (AtomicU32)
    tx,             \* the open IndexedDBPseudoTransaction handles
    loaded,         \* version adopted by the last FedimintStorage::new
    okCommits,      \* commits that returned Ok since that construction
    attempts,       \* commit attempts of the run
    writes,         \* write calls of the run
    lastCommit      \* what the last commit_tx returned

storeVars == <<ext, mem, version, tx, loaded, okCommits, attempts, writes, lastCommit>>

VARIABLES
    payments,       \* external payment store: payments[hash][inbound]
    oplog,          \* operation log of the embedded client, oldest first
    payCall,        \* the pay_invoice call that is waiting for its outcome
    sweepCall,      \* the check_activity call that is suspended at an await
    lookupCall,     \* the get_invoice_by_hash call that is suspended at an await
    lastCall,       \* the FederationClient call that took the last step, with
                    \* its result when the step was its return
    calls           \* FederationClient calls started in the run

payVars == <<payments, oplog, payCall, sweepCall, lookupCall, lastCall, calls>>

VARIABLES
    proc,           \* the process_outcome call under way
    boot,           \* the FederationClient::new call under way
    derive,         \* two create_federation_secret calls on one xpriv
    commit,         \* the commit_tx calls under way, by handle
    written         \* versions of the snapshots that landed, in order

auxVars == <<proc, boot, derive, commit, written>>

\* what the storage adapter's operations leave alone
nonStoreVars == <<payVars, auxVars>>

\* what the FederationClient calls leave alone
nonPayVars == <<storeVars, auxVars>>

\* what process_outcome leaves alone
nonProcVars == <<storeVars, payVars, boot, derive, commit, written>>

\* what FederationClient::new leaves alone, the adapter it builds apart
nonBootVars == <<payVars, proc, derive, commit, written>>

\* what create_federation_secret leaves alone
nonDeriveVars == <<storeVars, payVars, proc, boot, commit, written>>

\* what a commit_tx under way leaves alone, the adapter apart
nonCommitVars == <<payVars, proc, boot, derive>>

vars == <<storeVars, payVars, auxVars>>

TxIds == {1, 2}

\* no process_outcome call under way
NoProc == [stage |-> "none"]

\* no FederationClient::new call under way
NoBoot == [stage |-> "none"]

\* no create_federation_secret call asked for
NoDerive == [asked |-> FALSE]

\* no commit_tx call under way on a handle
NotCommitting == [phase |-> "idle"]

NoCommits == commit = [t \in TxIds |-> NotCommitting] /\ written = <<>>

NoSnapshot == [present |-> FALSE]

NoTx == [open |-> FALSE]

(***************************************************************************)
(* MemDatabase / MemTransaction, to which every adapter call delegates.    *)
(***************************************************************************)
\* begin_transaction: the handle works on a copy of the committed map, which
\* is its first savepoint too
MemBegin(db) ==
    [open |-> TRUE, data |-> db, ops |-> <<>>, savepoint |-> db,
     num_pending_operations |-> 0, num_savepoint_operations |-> 0]

\* the value under k in a map, as an Option: <<v>> or <<>>
MapGet(db, k) == IF k \in DOMAIN db THEN <<db[k]>> ELSE <<>>

\* an operation of a handle; old_value is what the handle's view held under
\* the key when the operation was made
InsertOp(k, v, old_value) ==
    [op |-> "Insert", key |-> k, val |-> v, old_value |-> old_value]

DeleteOp(k, old_value) == [op |-> "Delete", key |-> k, old_value |-> old_value]

\* raw_insert_bytes
TxInsert(t, k, v) ==
    [t EXCEPT !.data = MapPut(t.data, k, v),
              !.ops = Append(t.ops, InsertOp(k, v, MapGet(t.data, k))),
              !.num_pending_operations = @ + 1]

\* raw_remove_entry
TxRemove(t, k) ==
    [t EXCEPT !.data = MapDel(t.data, k),
              !.ops = Append(t.ops, DeleteOp(k, MapGet(t.data, k))),
              !.num_pending_operations = @ + 1]

\* raw_remove_entry on each of the keys, in their order
RECURSIVE TxRemoveAll(_, _)
TxRemoveAll(t, keys) ==
    IF keys = <<>> THEN t ELSE TxRemoveAll(TxRemove(t, Head(keys)), Tail(keys))

\* raw_find_by_prefix: the handle's view, ascending by key
FindByPrefix(t, p) ==
    LET ks == SortedKeys({k \in DOMAIN t.data : StartsWith(k, p)})
    IN  [i \in 1..Len(ks) |-> <<ks[i], t.data[ks[i]]>>]

\* a descending scan that would hand back the ascending one
FindByPrefixUnreversed(t, p) == FindByPrefix(t, p)

\* raw_find_by_prefix_sorted_descending
FindByPrefixDescending(t, p) == Reverse(FindByPrefix(t, p))

\* raw_remove_by_prefix: removes every key of the view under the prefix, and
\* leaves the handle as it is when there is none
TxRemoveByPrefix(t, p) ==
    TxRemoveAll(t, SortedKeys({k \in DOMAIN t.data : StartsWith(k, p)}))

\* raw_get_bytes
TxGet(t, k) == MapGet(t.data, k)

\* set_tx_savepoint: the view is copied, the number of operations noted
TxSetSavepoint(t) ==
    [t EXCEPT !.savepoint = t.data,
              !.num_savepoint_operations = t.num_pending_operations]

\* a rollback that would drop the operations and keep the view
TxRollbackOpsOnly(t) ==
    [t EXCEPT !.ops = SubSeq(t.ops, 1, t.num_savepoint_operations)]

\* rollback_tx_to_savepoint: the view is the copy again, and as many
\* operations are popped as were counted since the savepoint (the count of
\* pending operations is not taken back, and pop on an empty list does
\* nothing)
TxRollback(t) ==
    LET removed_ops == t.num_pending_operations - t.num_savepoint_operations
        kept == IF Len(t.ops) > removed_ops THEN Len(t.ops) - removed_ops ELSE 0
    IN  [t EXCEPT !.data = t.savepoint, !.ops = SubSeq(t.ops, 1, kept)]

\* the operations go onto the map one by one, each checked after it was
\* applied: when the map held another value under the key than the handle
\* saw, that is a write-write conflict, and the operations after it are not
\* applied: [db, ok]
RECURSIVE ApplyOps(_, _)
ApplyOps(db, ops) ==
    IF ops = <<>> THEN [db |-> db, ok |-> TRUE]
    ELSE LET o == Head(ops)
             applied == IF o.op = "Insert" THEN MapPut(db, o.key, o.val)
                        ELSE MapDel(db, o.key)
         IN  IF MapGet(db, o.key) # o.old_value
             THEN [db |-> applied, ok |-> FALSE]
             ELSE ApplyOps(applied, Tail(ops))

\* an in-memory commit that would leave the map as it was
MemCommitNothing(db, t) == [db |-> db, ok |-> TRUE]

\* MemTransaction::commit_tx: the handle's operations applied to the map,
\* and whether all of them went through: [db, ok]
MemCommit(db, t) == ApplyOps(db, t.ops)

\* raw_insert_bytes of each pair, in their order
RECURSIVE TxInsertAll(_, _)
TxInsertAll(t, pairs) ==
    IF pairs = <<>> THEN t
    ELSE TxInsertAll(TxInsert(t, Head(pairs)[1], Head(pairs)[2]), Tail(pairs))

\* the map with the pairs put on it, a later pair of a key replacing an
\* earlier one
RECURSIVE InsertAll(_, _)
InsertAll(db, pairs) ==
    IF pairs = <<>> THEN db
    ELSE InsertAll(MapPut(db, Head(pairs)[1], Head(pairs)[2]), Tail(pairs))

(***************************************************************************)
(* FedimintStorage::new                                                    *)
(***************************************************************************)
key_id(federation_id) == <<"fedimints/", federation_id>>

\* a construction that would decode every payload, the empty string too
NewAdapterDecodingAll(stored) ==
    IF ~stored.present THEN [ok |-> TRUE, mem |-> EmptyMap, version |-> 0]
    ELSE IF stored.value.type # "String" THEN [ok |-> FALSE]
    ELSE LET hex == FromHex(stored.value.s) IN
         IF ~hex.ok THEN [ok |-> FALSE]
         ELSE LET kv == BincodeDeserialize(hex.bytes) IN
              IF ~kv.ok THEN [ok |-> FALSE]
              ELSE [ok |-> TRUE, mem |-> InsertAll(EmptyMap, kv.pairs),
                    version |-> stored.version]

\* the match on storage.get_data(&key): [ok, mem, version]
NewAdapter(stored) ==
    IF ~stored.present THEN [ok |-> TRUE, mem |-> EmptyMap, version |-> 0]
    ELSE IF stored.value.type # "String" THEN [ok |-> FALSE]
    ELSE IF stored.value.s = <<>>
         THEN [ok |-> TRUE, mem |-> EmptyMap, version |-> stored.version]
    ELSE LET hex == FromHex(stored.value.s) IN
         IF ~hex.ok THEN [ok |-> FALSE]
         ELSE LET kv == BincodeDeserialize(hex.bytes) IN
              IF ~kv.ok THEN [ok |-> FALSE]
              ELSE LET mem_db_tx == TxInsertAll(MemBegin(EmptyMap), kv.pairs)
                       committed == MemCommit(EmptyMap, mem_db_tx)
                   IN  IF ~committed.ok THEN [ok |-> FALSE]
                       ELSE [ok |-> TRUE, mem |-> committed.db,
                             version |-> stored.version]

NoCommit == [result |-> "none"]

StoreInit ==
    /\ ext = NoSnapshot
    /\ mem = NewAdapter(NoSnapshot).mem
    /\ version = NewAdapter(NoSnapshot).version
    /\ tx = [t \in TxIds |-> NoTx]
    /\ loaded = NewAdapter(NoSnapshot).version
    /\ okCommits = 0
    /\ attempts = 0
    /\ writes = 0
    /\ lastCommit = NoCommit

\* a restart: a fresh adapter built on the same external storage
Restart ==
    /\ attempts > 0
    /\ \A t \in TxIds : ~tx[t].open
    /\ NewAdapter(ext).ok
    /\ mem' = NewAdapter(ext).mem
    /\ version' = NewAdapter(ext).version
    /\ loaded' = NewAdapter(ext).version
    /\ tx' = [t \in TxIds |-> NoTx]
    /\ okCommits' = 0
    /\ lastCommit' = NoCommit
    /\ UNCHANGED <<ext, attempts, writes, nonStoreVars>>

(***************************************************************************)
(* IRawDatabase / IDatabaseTransactionOpsCore of the adapter               *)
(***************************************************************************)
\* begin_transaction
BeginTransaction(t) ==
    /\ ~tx[t].open
    /\ attempts < MaxCommits
    /\ tx' = [tx EXCEPT ![t] = MemBegin(mem)]
    /\ UNCHANGED <<ext, mem, version, loaded, okCommits, attempts, writes, lastCommit, nonStoreVars>>

CanWrite(t) == tx[t].open /\ writes < MaxWrites

\* raw_insert_bytes
RawInsertBytes(t, k, v) ==
    /\ CanWrite(t)
    /\ tx' = [tx EXCEPT ![t] = TxInsert(tx[t], k, v)]
    /\ writes' = writes + 1
    /\ UNCHANGED <<ext, mem, version, loaded, okCommits, attempts, lastCommit, nonStoreVars>>

\* raw_remove_entry
RawRemoveEntry(t, k) ==
    /\ CanWrite(t)
    /\ tx' = [tx EXCEPT ![t] = TxRemove(tx[t], k)]
    /\ writes' = writes + 1
    /\ UNCHANGED <<ext, mem, version, loaded, okCommits, attempts, lastCommit, nonStoreVars>>

\* raw_remove_by_prefix
RawRemoveByPrefix(t, p) ==
    /\ CanWrite(t)
    /\ tx' = [tx EXCEPT ![t] = TxRemoveByPrefix(tx[t], p)]
    /\ writes' = writes + 1
    /\ UNCHANGED <<ext, mem, version, loaded, okCommits, attempts, lastCommit, nonStoreVars>>

\* set_tx_savepoint
SetTxSavepoint(t) ==
    /\ tx[t].open
    /\ tx' = [tx EXCEPT ![t] = TxSetSavepoint(tx[t])]
    /\ UNCHANGED <<ext, mem, version, loaded, okCommits, attempts, writes, lastCommit, nonStoreVars>>

\* rollback_tx_to_savepoint
RollbackTxToSavepoint(t) ==
    /\ tx[t].open
    /\ tx' = [tx EXCEPT ![t] = TxRollback(tx[t])]
    /\ UNCHANGED <<ext, mem, version, loaded, okCommits, attempts, writes, lastCommit, nonStoreVars>>

\* a commit that would persist only what the transaction wrote
CommitPairsWrittenOnly(t) ==
    FindByPrefix([t EXCEPT !.data =
        [k \in {t.ops[i].key : i \in {j \in 1..Len(t.ops) : t.ops[j].op = "Insert"}}
               \cap DOMAIN t.data |-> t.data[k]]], <<>>)

\* a commit that would persist the shared map as its own operations leave it
CommitPairsOfSharedMap(t) == FindByPrefix([data |-> ApplyOps(mem, t.ops).db], <<>>)

\* what commit_tx serializes: the handle's full view over the empty prefix
CommitPairs(t) == FindByPrefix(t, <<>>)

\* the VersionedValue commit_tx hands to set_data
SnapshotValue(pairs, v) ==
    [present |-> TRUE, version |-> v,
     value |-> JsonString(HexEncode(BincodeSerialize(pairs)))]

\* storage.set_data(key, value, Some(version)): the write lands or is refused
SetData(old, value, landed) == IF landed THEN value ELSE old

\* commit_tx: a write-write conflict of the in-memory commit is returned
\* before the version is counted up and before anything is written
CommitTx(t, landed) ==
    /\ tx[t].open
    /\ LET key_value_pairs == CommitPairs(tx[t])
           committed == MemCommit(mem, tx[t])
           new == version + 1
           ok == committed.ok /\ landed
       IN  /\ mem' = committed.db
           /\ version' = IF committed.ok THEN new ELSE version
           /\ ext' = IF committed.ok
                     THEN SetData(ext, SnapshotValue(key_value_pairs, new), landed)
                     ELSE ext
           /\ lastCommit' = [result |-> IF ok THEN "ok" ELSE "err"]
           /\ okCommits' = IF ok THEN okCommits + 1 ELSE okCommits
    /\ attempts' = attempts + 1
    /\ tx' = [tx EXCEPT ![t] = NoTx]
    /\ UNCHANGED <<loaded, writes, nonStoreVars>>

\* transactions run one after another
BeginSequential(t) ==
    /\ \A u \in TxIds : ~tx[u].open
    /\ BeginTransaction(t)

StoreNext ==
    \/ \E t \in TxIds : BeginSequential(t)
    \/ \E t \in TxIds, k \in KeySet, v \in ValSet : RawInsertBytes(t, k, v)
    \/ \E t \in TxIds, k \in KeySet : RawRemoveEntry(t, k)
    \/ \E t \in TxIds, p \in PrefixSet : RawRemoveByPrefix(t, p)
    \/ \E t \in TxIds, landed \in BOOLEAN : CommitTx(t, landed)
    \/ Restart

\* the adapter with savepoints set and rolled back to inside a transaction
SavepointNext ==
    \/ StoreNext
    \/ \E t \in TxIds : SetTxSavepoint(t)
    \/ \E t \in TxIds : RollbackTxToSavepoint(t)

(***************************************************************************)
(* Properties of the storage adapter                                       *)
(***************************************************************************)
\* the key/value pairs the stored snapshot decodes to
SnapshotDecoded ==
    IF ~ext.present \/ ext.value.type # "String" THEN DecodeError
    ELSE IF ext.value.s = <<>> THEN [ok |-> TRUE, pairs |-> <<>>]
    ELSE LET hex == FromHex(ext.value.s) IN
         IF ~hex.ok THEN DecodeError ELSE BincodeDeserialize(hex.bytes)

\* the in-memory working set as a sorted list of pairs
MemPairs == FindByPrefix([data |-> mem], <<>>)

\* C1: with transactions run one after another, after every successful
\* commit the snapshot under fedimints/<federation_id> decodes to exactly the
\* adapter's full in-memory key/value set, and a fresh adapter built on the
\* same external storage holds exactly those contents.
C1_SnapshotIsFullImage ==
    lastCommit.result = "ok" =>
        /\ ext.present
        /\ SnapshotDecoded.ok
        /\ SnapshotDecoded.pairs = MemPairs
        /\ NewAdapter(ext).ok
        /\ NewAdapter(ext).mem = mem

\* a second successful commit that wrote one key of a two-key working set
C1_Witness ==
    /\ lastCommit.result = "ok"
    /\ okCommits = 2
    /\ Cardinality(DOMAIN mem) = 2
    /\ writes = 2

\* C2: after a commit returned success, the persisted snapshot's version is
\* the version loaded at construction plus the number of commits that
\* returned success since.
C2_VersionIsLoadedPlusSuccesses ==
    lastCommit.result = "ok" => ext.version = loaded + okCommits

\* the handle's operations are inserts only
InsertsOnly(t) == \A i \in 1..Len(t.ops) : t.ops[i].op = "Insert"

\* the value the handle's last insert of k carries
LastInserted(t, k) ==
    t.ops[CHOOSE i \in 1..Len(t.ops) :
            /\ t.ops[i].key = k
            /\ \A j \in (i + 1)..Len(t.ops) : t.ops[j].key # k].val

\* the set S after the handle's inserts went on top of the committed map,
\* a later insert of a key replacing an earlier one
InsertedSet(db, t) ==
    LET put == {t.ops[i].key : i \in 1..Len(t.ops)}
    IN  {<<k, IF k \in put THEN LastInserted(t, k) ELSE db[k]>> :
            k \in DOMAIN db \cup put}

\* the step in which handle t commits
CommitStep(t) == tx[t].open /\ ~tx'[t].open /\ attempts' = attempts + 1

\* scan r lists exactly the pairs of S under prefix p, ascending by key
ScanIsAscending(r, S, p) ==
    /\ {r[i] : i \in 1..Len(r)} = {kv \in S : StartsWith(kv[1], p)}
    /\ \A i \in 1..Len(r), j \in 1..Len(r) : i < j => BytesLess(r[i][1], r[j][1])

\* C13: when a transaction of inserts commits on top of the committed set,
\* a find_by_prefix scan after the commit returns, for the empty prefix,
\* exactly the inserted set S in ascending lexicographic key order (later
\* inserts of a key replacing earlier ones), for a non-empty prefix exactly
\* the entries of S whose key starts with it, and
\* find_by_prefix_sorted_descending returns the same entries in the reverse
\* order.
C13_ScanReturnsInsertedSetInOrder ==
    [][\A t \in TxIds : (CommitStep(t) /\ InsertsOnly(tx[t])) =>
        LET S == InsertedSet(mem, tx[t])
            view == MemBegin(mem')
        IN  \A p \in PrefixSet :
                LET asc == FindByPrefix(view, p)
                    desc == FindByPrefixDescending(view, p)
                IN  /\ ScanIsAscending(asc, S, p)
                    /\ Len(desc) = Len(asc)
                    /\ \A i \in 1..Len(asc) : desc[i] = asc[Len(asc) + 1 - i]]_vars

\* two committed inserts left keys 1.2 and 2: the full scan has two entries
\* and the scan under prefix 1 has one
C13_Witness ==
    /\ attempts = 2
    /\ writes = 2
    /\ \A t \in TxIds : ~tx[t].open
    /\ DOMAIN mem = {<<1, 2>>, <<2>>}
    /\ Len(FindByPrefixDescending(MemBegin(mem), <<>>)) = 2
    /\ Len(FindByPrefix(MemBegin(mem), <<1>>)) = 1

\* the version of the snapshot in external storage, 0 when there is none
PersistedVersion == IF ext.present THEN ext.version ELSE 0

\* C23: when the external write of a commit fails (the in-memory commit
\* went through and commit_tx returned an error), the in-memory commit has
\* taken effect and the version counter has advanced by one: the working
\* set holds the transaction's writes, the external snapshot keeps its
\* contents and version, and the next commit that succeeds writes a version
\* two above the persisted one.
C23_FailedWriteKeepsMemoryAndVersion ==
    [][\A t \in TxIds : CommitStep(t) =>
        /\ (lastCommit'.result = "err" /\ ApplyOps(mem, tx[t].ops).ok) =>
              /\ mem' = ApplyOps(mem, tx[t].ops).db
              /\ version' = version + 1
              /\ ext' = ext
        /\ (lastCommit.result = "err" /\ version = PersistedVersion + 1
              /\ lastCommit'.result = "ok") =>
              /\ ext'.present
              /\ ext'.version = PersistedVersion + 2
              /\ version' = ext'.version]_vars

\* a failed commit of one insert, then a successful commit: version 2 is
\* in storage after one success
C23_Witness ==
    /\ lastCommit.result = "ok"
    /\ attempts = 2
    /\ okCommits = 1
    /\ loaded = 0
    /\ ext.version = 2
    /\ DOMAIN mem # {}

\* the step in which a fresh adapter is built on the external storage
RestartStep ==
    /\ \A t \in TxIds : ~tx[t].open /\ ~tx'[t].open
    /\ attempts' = attempts

\* C24: building an adapter writes nothing to external storage and, when a
\* snapshot exists, sets the version counter to exactly the persisted
\* version and the working set to the snapshot's pairs, so that the first
\* commit that succeeds after the construction writes version persisted + 1.
C24_ConstructionAdoptsPersistedVersion ==
    [][/\ RestartStep =>
            /\ ext' = ext
            /\ ext.present =>
                  /\ version' = ext.version
                  /\ loaded' = ext.version
                  /\ mem' = InsertAll(EmptyMap, SnapshotDecoded.pairs)
       /\ \A t \in TxIds :
            (CommitStep(t) /\ okCommits = 0 /\ lastCommit'.result = "ok") =>
                ext'.version = loaded + 1]_vars

\* what a handle whose view is `data` answers to every read and prefix scan
Answers(data) ==
    <<[k \in KeySet |-> TxGet([data |-> data], k)],
      [p \in PrefixSet |-> FindByPrefix([data |-> data], p)],
      [p \in PrefixSet |-> FindByPrefixDescending([data |-> data], p)]>>

\* C31: inside a transaction, set_savepoint records the view the handle has
\* then, the writes before it included, and changes no answer; a write
\* leaves the recorded view alone; after rollback_to_savepoint every read
\* and every prefix scan of the handle answers as the recorded view does, so
\* the writes made since the savepoint are gone and the earlier ones are
\* there; and a commit that succeeds persists the view the handle has then:
\* an adapter built on the snapshot holds exactly that view.
C31_RollbackRestoresSavepointView ==
    [][\A t \in TxIds :
          /\ SetTxSavepoint(t) =>
                /\ tx'[t].savepoint = tx[t].data
                /\ Answers(tx'[t].data) = Answers(tx[t].data)
          /\ (tx[t].open /\ tx'[t].open /\ writes' = writes + 1) =>
                tx'[t].savepoint = tx[t].savepoint
          /\ RollbackTxToSavepoint(t) =>
                /\ Answers(tx'[t].data) = Answers(tx[t].savepoint)
                /\ tx'[t].savepoint = tx[t].savepoint
          /\ (CommitStep(t) /\ lastCommit'.result = "ok") =>
                /\ NewAdapter(ext').ok
                /\ NewAdapter(ext').mem = tx[t].data]_vars

\* a handle that inserted a key, set a savepoint, wrote once more and rolled
\* back: it reads the first key and nothing else
C31_Witness ==
    \E t \in TxIds :
        /\ tx[t].open
        /\ tx[t].num_savepoint_operations = 1
        /\ tx[t].num_pending_operations = 2
        /\ Len(tx[t].ops) = 1
        /\ tx[t].ops[1].op = "Insert"
        /\ DOMAIN tx[t].data = {tx[t].ops[1].key}
        /\ TxGet(tx[t], tx[t].ops[1].key) = <<tx[t].ops[1].val>>

(***************************************************************************)
(* HTLC status and the state-to-status conversions                         *)
(***************************************************************************)
Hashes == {1, 2}

\* impl From<LnReceiveState> for HTLCStatus
LnReceiveStatus(state) ==
    CASE state.name = "Created" -> "Pending"
      [] state.name = "Claimed" -> "Succeeded"
      [] state.name = "WaitingForPayment" -> "Pending"
      [] state.name = "Canceled" -> "Failed"
      [] state.name = "Funded" -> "InFlight"
      [] state.name = "AwaitingFunds" -> "InFlight"

\* impl From<InternalPayState> for HTLCStatus
InternalPayStatus(state) ==
    CASE state.name = "Funding" -> "InFlight"
      [] state.name = "Preimage" -> "Succeeded"
      [] state.name = "RefundSuccess" -> "Failed"
      [] state.name = "RefundError" -> "Failed"
      [] state.name = "FundingFailed" -> "Failed"
      [] state.name = "UnexpectedError" -> "Failed"

\* a conversion that would take AwaitingChange for Pending
LnPayStatusChangePending(state) ==
    CASE state.name \in {"Created", "AwaitingChange"} -> "Pending"
      [] state.name \in {"Funded", "WaitingForRefund"} -> "InFlight"
      [] state.name = "Success" -> "Succeeded"
      [] state.name \in {"Canceled", "Refunded", "UnexpectedError"} -> "Failed"

\* impl From<LnPayState> for HTLCStatus
LnPayStatus(state) ==
    CASE state.name = "Created" -> "Pending"
      [] state.name = "Canceled" -> "Failed"
      [] state.name = "Funded" -> "InFlight"
      [] state.name = "WaitingForRefund" -> "InFlight"
      [] state.name = "AwaitingChange" -> "InFlight"
      [] state.name = "Success" -> "Succeeded"
      [] state.name = "Refunded" -> "Failed"
      [] state.name = "UnexpectedError" -> "Failed"

\* the conversion U: Into<HTLCStatus> of the stream type U
StatusOf(kind, state) ==
    CASE kind = "Receive" -> LnReceiveStatus(state)
      [] kind = "Internal" -> InternalPayStatus(state)
      [] kind = "Lightning" -> LnPayStatus(state)

\* matches!(status, HTLCStatus::Succeeded | HTLCStatus::Failed)
IsFinal(status) == status \in {"Succeeded", "Failed"}

\* a pending filter that would also take Failed records for unfinished
IsPendingOrFailed(status) == status \in {"InFlight", "Pending", "Failed"}

\* matches!(status, HTLCStatus::InFlight | HTLCStatus::Pending)
IsPending(status) == status \in {"InFlight", "Pending"}

(***************************************************************************)
(* Invoices and payment records                                            *)
(***************************************************************************)
NoPreimage == <<>>

NoFee == <<>>

\* MutinyInvoice from a Bolt11Invoice: the originating state only
InvoiceInto(hash) ==
    [hash |-> hash, inbound |-> TRUE, status |-> "Pending",
     preimage |-> NoPreimage, fees |-> NoFee]

NoRecord == [status |-> "Absent"]

\* PaymentInfo::from(MutinyInvoice)
PaymentInfoFrom(invoice) ==
    [status |-> invoice.status, preimage |-> invoice.preimage, fees |-> invoice.fees]

\* MutinyInvoice::from(PaymentInfo, hash, inbound, labels)
InvoiceFromInfo(info, hash, inbound) ==
    [hash |-> hash, inbound |-> inbound, status |-> info.status,
     preimage |-> info.preimage, fees |-> info.fees]

\* persist_payment_info: last write wins under (hash, inbound)
PersistPaymentInfo(st, hash, info, inbound) ==
    [st EXCEPT ![hash][inbound] = info]

\* list_payment_info(storage, inbound), as invoices, in key order
ListPaymentInfo(st, inbound) ==
    LET hs == {h \in Hashes : st[h][inbound] # NoRecord}
        RECURSIVE Asc(_)
        Asc(rest) ==
            IF rest = {} THEN <<>>
            ELSE LET h == CHOOSE x \in rest : \A y \in rest : x <= y
                 IN  <<InvoiceFromInfo(st[h][inbound], h, inbound)>> \o Asc(rest \ {h})
    IN  Asc(hs)

\* get_payment_info(storage, hash): the records a lookup by hash can return
GetPaymentInfo(st, hash) ==
    {InvoiceFromInfo(st[hash][inb], hash, inb) :
        inb \in {b \in BOOLEAN : st[hash][b] # NoRecord}}

(***************************************************************************)
(* The embedded client: operations, their states and subscriptions         *)
(***************************************************************************)
St(name) == [name |-> name, preimage |-> NoPreimage]

\* the 32-byte preimage of a payment hash, shortened to one byte
PreimageBytes(hash) == <<160 + hash>>

\* states the embedded client can report next for an operation
NextStates(kind, hash, last) ==
    CASE kind = "Lightning" ->
            (CASE last = "Created" -> {St("Canceled"), St("Funded")}
               [] last = "Funded" ->
                    {[name |-> "Success", preimage |-> HexEncode(PreimageBytes(hash))],
                     St("WaitingForRefund")}
               [] last = "WaitingForRefund" -> {St("Refunded")}
               [] OTHER -> {})
      [] kind = "Internal" ->
            (CASE last = "Funding" ->
                    {[name |-> "Preimage", preimage |-> PreimageBytes(hash)],
                     St("RefundSuccess")}
               [] OTHER -> {})
      [] kind = "Receive" ->
            (CASE last = "Created" -> {St("WaitingForPayment")}
               [] last = "WaitingForPayment" -> {St("Canceled"), St("Funded")}
               [] last = "Funded" -> {St("AwaitingFunds")}
               [] last = "AwaitingFunds" -> {St("Claimed")}
               [] OTHER -> {})
      [] OTHER -> {}

FirstState(kind) ==
    CASE kind = "Lightning" -> St("Created")
      [] kind = "Internal" -> St("Funding")
      [] kind = "Receive" -> St("Created")

\* the type of the operation's update stream
StreamKind(entry) == IF entry.variant = "Receive" THEN "Receive" ELSE entry.ptype

LastState(entry) == entry.states[Len(entry.states)]

OpDone(entry) == NextStates(StreamKind(entry), entry.hash, LastState(entry).name) = {}

\* entry.operation_module_kind() == LightningCommonInit::KIND
IsLightning(entry) == entry.module = "ln"

\* create_bolt11_invoice: a Receive operation for a new payment hash
ReceiveEntry(hash) ==
    [module |-> "ln", variant |-> "Receive", hash |-> hash, ptype |-> "none",
     states |-> <<FirstState("Receive")>>]

\* pay_bolt11_invoice: a Pay operation, internal or over Lightning
PayEntry(hash, ptype) ==
    [module |-> "ln", variant |-> "Pay", hash |-> hash, ptype |-> ptype,
     states |-> <<FirstState(ptype)>>]

\* an operation of another module (mint, wallet)
OtherEntry ==
    [module |-> "mint", variant |-> "none", hash |-> 0, ptype |-> "none",
     states |-> <<>>]

\* pay_bolt11_invoice refuses an invoice with an attempt in progress or paid
CanInitiate(log, hash) ==
    \A i \in 1..Len(log) :
        (log[i].variant = "Pay" /\ log[i].hash = hash) =>
            (OpDone(log[i]) /\ StatusOf(StreamKind(log[i]), LastState(log[i])) = "Failed")

\* operation_log().list_operations(max, None): the most recent first
ListOperations(log, max) ==
    LET n == IF Len(log) < max THEN Len(log) ELSE max
    IN  [i \in 1..n |-> log[Len(log) + 1 - i]]

\* what a subscription can return for an operation seen as a stream of `kind`:
\* an error, the stream of the states reported so far with the number of them
\* the caller receives before its timer fires, or, for an operation that has
\* ended, its resolved outcome
Subscriptions(entry, kind) ==
    {[sub |-> "Err"]}
    \cup (IF kind # StreamKind(entry)
          THEN {[sub |-> "Stream", states |-> <<FirstState(kind)>>, cut |-> c] :
                    c \in 0..1}
          ELSE {[sub |-> "Stream", states |-> entry.states, cut |-> c] :
                    c \in 0..Len(entry.states)}
               \cup (IF OpDone(entry)
                     THEN {[sub |-> "Outcome", outcome |-> LastState(entry)]}
                     ELSE {}))

(***************************************************************************)
(* The outcome processor and the operation-log translator                  *)
(***************************************************************************)
\* process_pay_state_internal
process_pay_state_internal(pay_state, invoice) ==
    [invoice EXCEPT
        !.preimage = IF pay_state.name = "Preimage"
                     THEN HexEncode(pay_state.preimage) ELSE NoPreimage,
        !.status = InternalPayStatus(pay_state)]

\* a Lightning pay mutation that would set the status and drop the preimage
process_pay_state_ln_status_only(pay_state, invoice) ==
    [invoice EXCEPT !.preimage = NoPreimage, !.status = LnPayStatus(pay_state)]

\* a Lightning pay mutation that would leave a preimage in place on a state
\* other than Success
process_pay_state_ln_keeping(pay_state, invoice) ==
    [invoice EXCEPT
        !.preimage = IF pay_state.name = "Success" THEN pay_state.preimage ELSE @,
        !.status = LnPayStatus(pay_state)]

\* process_pay_state_ln
process_pay_state_ln(pay_state, invoice) ==
    [invoice EXCEPT
        !.preimage = IF pay_state.name = "Success"
                     THEN pay_state.preimage ELSE NoPreimage,
        !.status = LnPayStatus(pay_state)]

\* process_receive_state
process_receive_state(receive_state, invoice) ==
    [invoice EXCEPT !.status = LnReceiveStatus(receive_state)]

\* the process_fn handed to process_outcome for a stream of `kind`
ProcessFn(kind, state, invoice) ==
    CASE kind = "Receive" -> process_receive_state(state, invoice)
      [] kind = "Internal" -> process_pay_state_internal(state, invoice)
      [] kind = "Lightning" -> process_pay_state_ln(state, invoice)

\* the while-let loop: states are applied in order until one is final, the
\* stream has ended, or the timer fires after `cut` states
RECURSIVE StreamLoop(_, _, _, _)
StreamLoop(kind, states, cut, invoice) ==
    IF states = <<>> \/ cut = 0 THEN invoice
    ELSE LET next == ProcessFn(kind, Head(states), invoice) IN
         IF IsFinal(next.status) THEN next
         ELSE StreamLoop(kind, Tail(states), cut - 1, next)

\* process_outcome
process_outcome(sub, kind, hash, inbound) ==
    LET invoice == [InvoiceInto(hash) EXCEPT !.inbound = inbound] IN
    IF sub.sub = "Outcome"
    THEN [invoice EXCEPT !.status = StatusOf(kind, sub.outcome)]
    ELSE StreamLoop(kind, sub.states, sub.cut, invoice)

\* a translator that would take every Lightning entry for the target
MatchesAny(entry, hash) == TRUE

\* pay_meta.invoice.payment_hash() == hash / invoice.payment_hash() == hash
EntryMatches(entry, hash) == entry.hash = hash

\* the stream extract_invoice_from_entry subscribes to for an entry
ExtractKind(entry) == IF entry.variant = "Pay" THEN "Lightning" ELSE "Receive"

\* extract_invoice_from_entry: <<>> for None, <<invoice>> for Some(invoice)
extract_invoice_from_entry(entry, hash, sub) ==
    IF ~EntryMatches(entry, hash) THEN <<>>
    ELSE IF sub.sub = "Err" THEN <<InvoiceInto(entry.hash)>>
    ELSE <<process_outcome(sub, ExtractKind(entry), entry.hash,
                           entry.variant = "Receive")>>

\* an update rule that would persist every status, terminal or not
PersistAlways(updated_invoice) == TRUE

\* maybe_update_after_checking_fedimint: does it call persist_payment_info
ShouldPersist(updated_invoice) == IsFinal(updated_invoice.status)

\* an update step that would never write
NoUpdate(st, updated_invoice) == st

\* maybe_update_after_checking_fedimint, when the write lands
maybe_update_after_checking_fedimint(st, updated_invoice) ==
    IF ShouldPersist(updated_invoice)
    THEN PersistPaymentInfo(st, updated_invoice.hash,
                            PaymentInfoFrom(updated_invoice), updated_invoice.inbound)
    ELSE st

(***************************************************************************)
(* FederationClient                                                        *)
(***************************************************************************)
None == <<>>

Some(x) == <<x>>

\* what a returned call leaves in lastCall
Call(op, hash, result, inv, lists, subs, found, seen) ==
    [op |-> op, hash |-> hash, result |-> result, inv |-> inv, lists |-> lists,
     subs |-> subs, found |-> found, seen |-> seen]

NoCall == Call("none", 0, "none", None, 0, 0, None, {})

Idle == [stage |-> "idle"]

\* the external payment store at construction: empty, or holding an outbound
\* payment another part of the wallet left in flight
InitialPayments ==
    LET empty == [h \in Hashes |-> [b \in BOOLEAN |-> NoRecord]]
    IN  {empty,
         [empty EXCEPT ![2][FALSE] = [status |-> "InFlight", preimage |-> NoPreimage,
                                      fees |-> NoFee]]}

ClientInit ==
    /\ payments \in InitialPayments
    /\ oplog = <<>>
    /\ payCall = Idle
    /\ sweepCall = Idle
    /\ lookupCall = Idle
    /\ lastCall = NoCall
    /\ calls = 0

\* a first record that would be stored as InFlight
PendingInfoInFlight(hash, inbound) ==
    PaymentInfoFrom([InvoiceInto(hash) EXCEPT !.inbound = inbound, !.status = "InFlight"])

\* the record persisted for a new invoice: stored_payment with its direction
PendingInfo(hash, inbound) ==
    PaymentInfoFrom([InvoiceInto(hash) EXCEPT !.inbound = inbound])

Unused(h) ==
    /\ \A i \in 1..Len(oplog) : oplog[i].hash # h
    /\ \A b \in BOOLEAN : payments[h][b] = NoRecord

\* the payment hash of a new invoice: one the wallet has not seen yet
FreshHash(h) == Unused(h) /\ \A g \in Hashes : g < h => ~Unused(g)

\* get_invoice
GetInvoice(h, created, landed) ==
    /\ calls < MaxCalls
    /\ calls' = calls + 1
    /\ IF ~created
       THEN /\ lastCall' = Call("get_invoice", h, "ClientError", None, 0, 0, None, {})
            /\ UNCHANGED <<payments, oplog>>
       ELSE /\ FreshHash(h)
            /\ Len(oplog) < MaxOps
            /\ oplog' = Append(oplog, ReceiveEntry(h))
            /\ IF landed
               THEN /\ payments' = PersistPaymentInfo(payments, h, PendingInfo(h, TRUE), TRUE)
                    /\ lastCall' = Call("get_invoice", h, "Ok", Some(InvoiceInto(h)),
                                        0, 0, None, {})
               ELSE /\ payments' = payments
                    /\ lastCall' = Call("get_invoice", h, "StorageError", None,
                                        0, 0, None, {})
    /\ UNCHANGED <<payCall, sweepCall, lookupCall, nonPayVars>>

\* a final match that would report a failed payment as a timeout
PayResultTimeoutOnFailure(status) ==
    IF status = "Succeeded" THEN "Ok" ELSE "PaymentTimeout"

\* the final match of pay_invoice on inv.status
PayResult(status) ==
    CASE status = "Succeeded" -> "Ok"
      [] status = "Failed" -> "RoutingFailed"
      [] status = "Pending" -> "PaymentTimeout"
      [] status = "InFlight" -> "PaymentTimeout"

\* pay_invoice up to the subscription: initiate, then persist the record
PayInvoiceStart(h, ptype, initiated, landed) ==
    /\ payCall = Idle
    /\ calls < MaxCalls
    /\ calls' = calls + 1
    /\ IF ~initiated
       THEN /\ lastCall' = Call("pay_invoice", h, "ClientError", None, 0, 0, None, {})
            /\ UNCHANGED <<payments, oplog, payCall>>
       ELSE /\ CanInitiate(oplog, h)
            /\ Len(oplog) < MaxOps
            /\ oplog' = Append(oplog, PayEntry(h, ptype))
            /\ IF landed
               THEN /\ payments' = PersistPaymentInfo(payments, h,
                                                      PendingInfo(h, FALSE), FALSE)
                    /\ payCall' = [stage |-> "waiting", hash |-> h,
                                   op |-> Len(oplog) + 1, ptype |-> ptype, fee |-> <<1>>]
                    /\ lastCall' = NoCall
               ELSE /\ payments' = payments
                    /\ payCall' = payCall
                    /\ lastCall' = Call("pay_invoice", h, "StorageError", None,
                                        0, 0, None, {})
    /\ UNCHANGED <<sweepCall, lookupCall, nonPayVars>>

\* the invoice pay_invoice holds after subscribing and waiting
PayOutcome(sub, ptype, h, fee) ==
    [(IF sub.sub = "Err" THEN InvoiceInto(h)
      ELSE process_outcome(sub, ptype, h, FALSE)) EXCEPT !.fees = fee]

\* pay_invoice from the subscription to its return
PayInvoiceFinish(landed) ==
    /\ payCall.stage = "waiting"
    /\ \E sub \in Subscriptions(oplog[payCall.op], payCall.ptype) :
         LET inv == PayOutcome(sub, payCall.ptype, payCall.hash, payCall.fee) IN
         IF ShouldPersist(inv) /\ ~landed
         THEN /\ payments' = payments
              /\ lastCall' = Call("pay_invoice", payCall.hash, "StorageError", None,
                                  0, 1, None, {})
         ELSE /\ landed
              /\ payments' = maybe_update_after_checking_fedimint(payments, inv)
              /\ lastCall' = Call("pay_invoice", payCall.hash, PayResult(inv.status),
                                  Some(inv), 0, 1, None, {})
    /\ payCall' = Idle
    /\ UNCHANGED <<oplog, sweepCall, lookupCall, calls, nonPayVars>>

\* the task running pay_invoice is dropped while it waits
PayInvoiceDropped ==
    /\ payCall.stage = "waiting"
    /\ payCall' = Idle
    /\ lastCall' = Call("pay_invoice", payCall.hash, "Dropped", None, 0, 1, None, {})
    /\ UNCHANGED <<payments, oplog, sweepCall, lookupCall, calls, nonPayVars>>

\* check_activity: the stored invoices that are InFlight or Pending
PendingInvoices(st) ==
    SelectSeq(ListPaymentInfo(st, TRUE), LAMBDA i : IsPending(i.status))
    \o SelectSeq(ListPaymentInfo(st, FALSE), LAMBDA i : IsPending(i.status))

\* a sweep that would list the operations whatever is pending
SweepListsAlways(pending) == 1

\* check_activity: the number of list_operations calls
SweepLists(pending) == IF pending # <<>> THEN 1 ELSE 0

\* list_operations: the keys (operation ids) of the listed entries, the most
\* recent first
ListedKeys(log, max) ==
    LET n == IF Len(log) < max THEN Len(log) ELSE max
    IN  [i \in 1..n |-> Len(log) + 1 - i]

\* check_activity: payment hash -> key of its entry, a later entry of the
\* listing replacing an earlier one
OperationMap(log, keys) ==
    LET idx == {i \in 1..Len(keys) : IsLightning(log[keys[i]])}
    IN  [h \in {log[keys[i]].hash : i \in idx} |->
            keys[CHOOSE i \in idx :
                    /\ log[keys[i]].hash = h
                    /\ \A j \in idx : log[keys[j]].hash = h => j <= i]]

\* what a call leaves in lastCall with a step that is not its return
Suspended(op, hash) == Call(op, hash, "Suspended", None, 0, 0, None, {})

\* the call in lastCall has returned
Returned(call) == call.op # "none" /\ call.result # "Suspended"

\* how a sweep runs: `alone` while no other call and no operation has taken
\* a step since it started; for a sweep that started right after a sweep
\* that ran alone returned, `first` is what that sweep returned and `base`
\* the store it left
NoRun == [alone |-> FALSE, first |-> None, base |-> None]

RunFrom(call, st) ==
    IF call.op = "check_activity" /\ Returned(call) /\ call.alone
    THEN [alone |-> TRUE, first |-> Some([result |-> call.result, seen |-> call.seen]),
          base |-> Some(st)]
    ELSE [alone |-> TRUE, first |-> None, base |-> None]

RunOn(run, call) ==
    IF run.alone /\ call = Suspended("check_activity", 0) THEN run ELSE NoRun

\* what a returned check_activity leaves in lastCall
SweepReturn(result, lists, subs, seen, run) ==
    Call("check_activity", 0, result, None, lists, subs, None, seen) @@ run

\* check_activity up to list_operations(..).await: the pending invoices are
\* read from the store; with none of them the call runs to its end
CheckActivity(counted) ==
    /\ sweepCall = Idle
    /\ IF counted THEN calls < MaxCalls /\ calls' = calls + 1 ELSE calls' = calls
    /\ LET pending == PendingInvoices(payments)
           run == RunFrom(lastCall, payments)
       IN  IF SweepLists(pending) = 0
           THEN /\ sweepCall' = Idle
                /\ lastCall' = SweepReturn("Ok", 0, 0, {}, run)
           ELSE /\ sweepCall' = [stage |-> "listing", pending |-> pending,
                                 map |-> <<>>, subs |-> 0, seen |-> {}, run |-> run]
                /\ lastCall' = Suspended("check_activity", 0)
    /\ UNCHANGED <<payments, oplog, payCall, lookupCall, nonPayVars>>

\* check_activity from the answer of list_operations to the first
\* subscription: the operation map is built, and the pending invoices
\* without an entry in it are passed over
CheckActivityListed ==
    /\ sweepCall.stage = "listing"
    /\ LET map == OperationMap(oplog, ListedKeys(oplog, FEDIMINT_OPERATIONS_LIST_MAX))
           pending == SelectSeq(sweepCall.pending, LAMBDA i : i.hash \in DOMAIN map)
           run == RunOn(sweepCall.run, lastCall)
       IN  IF pending = <<>>
           THEN /\ sweepCall' = Idle
                /\ lastCall' = SweepReturn("Ok", 1, 0, {}, run)
           ELSE /\ sweepCall' = [sweepCall EXCEPT !.stage = "looping",
                                                  !.pending = pending,
                                                  !.map = map, !.run = run]
                /\ lastCall' = Suspended("check_activity", 0)
    /\ UNCHANGED <<payments, oplog, payCall, lookupCall, calls, nonPayVars>>

\* check_activity, one iteration of the loop over the pending invoices: the
\* translator subscribes by the operation id of the listed entry and waits,
\* then maybe_update_after_checking_fedimint; seen collects the terminal
\* updates the translator returned, each with the kind of subscription
\* result it came from
CheckActivityIterate(landed) ==
    /\ sweepCall.stage = "looping"
    /\ LET hash == Head(sweepCall.pending).hash
           entry == oplog[sweepCall.map[hash]]
           run == RunOn(sweepCall.run, lastCall)
       IN  \E sub \in Subscriptions(entry, ExtractKind(entry)) :
             LET got == extract_invoice_from_entry(entry, hash, sub)
                 new == IF got # None /\ IsFinal(got[1].status)
                        THEN {[sub |-> sub.sub, upd |-> got[1]]} ELSE {}
                 subs == sweepCall.subs + (IF got # None THEN 1 ELSE 0)
                 seen == sweepCall.seen \cup new
             IN  IF got # None /\ ShouldPersist(got[1]) /\ ~landed
                 THEN /\ payments' = payments
                      /\ sweepCall' = Idle
                      /\ lastCall' = SweepReturn("StorageError", 1, subs, seen, run)
                 ELSE /\ landed
                      /\ payments' = IF got = None THEN payments
                                     ELSE maybe_update_after_checking_fedimint(payments,
                                                                               got[1])
                      /\ IF Tail(sweepCall.pending) = <<>>
                         THEN /\ sweepCall' = Idle
                              /\ lastCall' = SweepReturn("Ok", 1, subs, seen, run)
                         ELSE /\ sweepCall' = [sweepCall EXCEPT
                                                  !.pending = Tail(@), !.subs = subs,
                                                  !.seen = seen, !.run = run]
                              /\ lastCall' = Suspended("check_activity", 0)
    /\ UNCHANGED <<oplog, payCall, lookupCall, calls, nonPayVars>>

\* what a returned get_invoice_by_hash leaves in lastCall
LookupReturn(hash, result, inv, lists, subs, found, seen) ==
    Call("get_invoice_by_hash", hash, result, inv, lists, subs, found, seen)

\* get_invoice_by_hash up to list_operations(..).await: the record is read
\* from the store; without a record, or with a finished one, the call runs to
\* its end
GetInvoiceByHash(hash) ==
    /\ lookupCall = Idle
    /\ calls < MaxCalls
    /\ calls' = calls + 1
    /\ IF GetPaymentInfo(payments, hash) = {}
       THEN /\ lastCall' = LookupReturn(hash, "NotFound", None, 0, 0, None, {})
            /\ lookupCall' = Idle
       ELSE \E invoice \in GetPaymentInfo(payments, hash) :
              IF IsPending(invoice.status)
              THEN /\ lookupCall' = [stage |-> "listing", hash |-> hash,
                                     found |-> invoice, key |-> 0]
                   /\ lastCall' = Suspended("get_invoice_by_hash", hash)
              ELSE /\ lookupCall' = Idle
                   /\ lastCall' = LookupReturn(hash, "Ok", Some(invoice), 0, 0,
                                               Some(invoice), {})
    /\ UNCHANGED <<payments, oplog, payCall, sweepCall, nonPayVars>>

\* get_invoice_by_hash from the answer of list_operations to the
\* subscription: the entries are scanned, the most recent first, up to the
\* first Lightning entry the translator takes; without one the call fails
GetInvoiceByHashListed ==
    /\ lookupCall.stage = "listing"
    /\ LET keys == ListedKeys(oplog, FEDIMINT_OPERATIONS_LIST_MAX)
           hits == {i \in 1..Len(keys) :
                       /\ IsLightning(oplog[keys[i]])
                       /\ EntryMatches(oplog[keys[i]], lookupCall.hash)}
       IN  IF hits = {}
           THEN /\ lookupCall' = Idle
                /\ lastCall' = LookupReturn(lookupCall.hash, "NotFound", None, 1, 0,
                                            Some(lookupCall.found), {})
           ELSE /\ lookupCall' = [lookupCall EXCEPT
                                     !.stage = "subscribing",
                                     !.key = keys[CHOOSE i \in hits :
                                                     \A j \in hits : i <= j]]
                /\ lastCall' = Suspended("get_invoice_by_hash", lookupCall.hash)
    /\ UNCHANGED <<payments, oplog, payCall, sweepCall, calls, nonPayVars>>

\* get_invoice_by_hash from the subscription to its return: the translator
\* subscribes by the operation id and waits, then
\* maybe_update_after_checking_fedimint and Ok(updated_invoice)
GetInvoiceByHashFinish(landed) ==
    /\ lookupCall.stage = "subscribing"
    /\ LET entry == oplog[lookupCall.key]
           hash == lookupCall.hash
       IN  \E sub \in Subscriptions(entry, ExtractKind(entry)) :
             LET got == extract_invoice_from_entry(entry, hash, sub)
                 seen == IF got # None /\ IsFinal(got[1].status)
                         THEN {[sub |-> sub.sub, upd |-> got[1]]} ELSE {}
             IN  /\ got # None
                 /\ IF ShouldPersist(got[1]) /\ ~landed
                    THEN /\ payments' = payments
                         /\ lastCall' = LookupReturn(hash, "StorageError", None, 1, 1,
                                                     Some(lookupCall.found), seen)
                    ELSE /\ landed
                         /\ payments' = maybe_update_after_checking_fedimint(payments,
                                                                             got[1])
                         /\ lastCall' = LookupReturn(hash, "Ok", got, 1, 1,
                                                     Some(lookupCall.found), seen)
    /\ lookupCall' = Idle
    /\ UNCHANGED <<oplog, payCall, sweepCall, calls, nonPayVars>>

(***************************************************************************)
(* The federation at work: operations advance                              *)
(***************************************************************************)
OperationAdvances(i, s) ==
    /\ i \in 1..Len(oplog)
    /\ IsLightning(oplog[i])
    /\ s \in NextStates(StreamKind(oplog[i]), oplog[i].hash, LastState(oplog[i]).name)
    /\ oplog' = [oplog EXCEPT ![i].states = Append(@, s)]
    /\ lastCall' = NoCall
    /\ UNCHANGED <<payments, payCall, sweepCall, lookupCall, calls, nonPayVars>>

OtherModuleOperation ==
    /\ Len(oplog) < MaxOps
    /\ oplog' = Append(oplog, OtherEntry)
    /\ lastCall' = NoCall
    /\ UNCHANGED <<payments, payCall, sweepCall, lookupCall, calls, nonPayVars>>

AllStates ==
    UNION {{FirstState(k)} \cup UNION {NextStates(k, h, n) : h \in Hashes,
              n \in {"Created", "Funded", "WaitingForRefund", "Funding",
                     "WaitingForPayment", "AwaitingFunds"}} :
           k \in {"Lightning", "Internal", "Receive"}}

ClientNext ==
    \/ \E h \in Hashes, created \in BOOLEAN, landed \in BOOLEAN : GetInvoice(h, created, landed)
    \/ \E h \in Hashes, ptype \in {"Lightning", "Internal"}, initiated \in BOOLEAN,
          landed \in BOOLEAN : PayInvoiceStart(h, ptype, initiated, landed)
    \/ \E landed \in BOOLEAN : PayInvoiceFinish(landed)
    \/ PayInvoiceDropped
    \/ CheckActivity(TRUE)
    \/ CheckActivityListed
    \/ \E landed \in BOOLEAN : CheckActivityIterate(landed)
    \/ \E h \in Hashes : GetInvoiceByHash(h)
    \/ GetInvoiceByHashListed
    \/ \E landed \in BOOLEAN : GetInvoiceByHashFinish(landed)
    \/ \E i \in 1..MaxOps, s \in AllStates : OperationAdvances(i, s)
    \/ OtherModuleOperation

(***************************************************************************)
(* Properties of the federation client's payment operations               *)
(***************************************************************************)
\* the step in which a call of `op` returns, leaving its record in lastCall
Returns(op) == lastCall'.op = op /\ Returned(lastCall')

\* the step in which a call of `op` starts
Starts(op) == lastCall'.op = op /\ calls' # calls

\* the terminal updates the translator has returned to a sweep
SeenBy(call, last) ==
    IF last.op = "check_activity" /\ Returned(last) THEN last.seen
    ELSE IF call.stage = "looping" THEN call.seen ELSE {}

\* the records a step wrote to the payment store
Written(h, b) == payments'[h][b] # payments[h][b]

\* the number of payment attempts pay_invoice has initiated for a hash
PayAttempts(log, h) ==
    Cardinality({i \in 1..Len(log) : log[i].variant = "Pay" /\ log[i].hash = h})

\* the operation of the latest payment attempt for a hash
PaidEntry(log, h) ==
    log[CHOOSE i \in 1..Len(log) :
            /\ log[i].variant = "Pay" /\ log[i].hash = h
            /\ \A j \in 1..Len(log) : (log[j].variant = "Pay" /\ log[j].hash = h) => j <= i]

\* C3: once the record under (payment_hash, inbound) is Succeeded or Failed,
\* no step of get_invoice, pay_invoice, check_activity or get_invoice_by_hash
\* changes its status, and a later write to the key stores the same record.
C3_TerminalRecordNeverChanges ==
    [][\A h \in Hashes, b \in BOOLEAN :
          IsFinal(payments[h][b].status) => payments'[h][b] = payments[h][b]]_vars

\* C4: a pay_invoice that initiated the payment and whose store writes
\* succeeded returns Ok with the invoice exactly when the status reached
\* after waiting is Succeeded, RoutingFailed exactly when it is Failed, and
\* PaymentTimeout exactly when it is still Pending or InFlight; Ok and
\* RoutingFailed are returned only for an operation that ended in a state
\* mapping to that status.
C4_PayInvoiceResultFollowsStatus ==
    lastCall.op = "pay_invoice" =>
        /\ lastCall.result \in {"Ok", "RoutingFailed", "PaymentTimeout"}
              <=> lastCall.inv # None
        /\ lastCall.inv # None =>
              LET status == lastCall.inv[1].status
                  entry == PaidEntry(oplog, lastCall.hash)
                  ended == StatusOf(StreamKind(entry), LastState(entry))
              IN  /\ lastCall.result = "Ok" <=> status = "Succeeded"
                  /\ lastCall.result = "RoutingFailed" <=> status = "Failed"
                  /\ lastCall.result = "PaymentTimeout"
                        <=> status \in {"Pending", "InFlight"}
                  /\ lastCall.result = "Ok" => ended = "Succeeded"
                  /\ lastCall.result = "RoutingFailed" => ended = "Failed"

\* a payment still in flight when the wait ended
C4_Witness ==
    /\ lastCall.op = "pay_invoice"
    /\ lastCall.result = "PaymentTimeout"
    /\ lastCall.inv # None
    /\ lastCall.inv[1].status = "InFlight"

\* C5: when pay_invoice has initiated the payment, the outbound Pending record
\* of the payment hash is in the store before the call subscribes or waits;
\* while the call waits, and when it is dropped while waiting, the outbound
\* record stays in the store; a pay_invoice whose initiation failed writes
\* nothing.
C5_PendingWrittenBeforeWaiting ==
    [][/\ (payCall.stage = "idle" /\ payCall'.stage = "waiting") =>
              /\ payments'[payCall'.hash][FALSE]
                    = [status |-> "Pending", preimage |-> NoPreimage, fees |-> NoFee]
              /\ oplog' = Append(oplog, PayEntry(payCall'.hash, payCall'.ptype))
       /\ payCall'.stage = "waiting" =>
              payments'[payCall'.hash][FALSE].status \in {"Pending", "Succeeded", "Failed"}
       /\ (Returns("pay_invoice") /\ lastCall'.result = "Dropped") =>
              /\ payments' = payments
              /\ payments'[lastCall'.hash][FALSE].status
                    \in {"Pending", "Succeeded", "Failed"}
       /\ (Returns("pay_invoice") /\ lastCall'.result = "ClientError") =>
              /\ payments' = payments
              /\ oplog' = oplog
              /\ lastCall'.subs = 0]_vars

\* a call dropped during its wait, with the Pending record left in the store
C5_Witness ==
    /\ lastCall.op = "pay_invoice"
    /\ lastCall.result = "Dropped"
    /\ payments[lastCall.hash][FALSE]
          = [status |-> "Pending", preimage |-> NoPreimage, fees |-> NoFee]

\* C6: when pay_invoice returns Ok or RoutingFailed, the outbound record of the
\* payment hash in the store is the returned invoice's record, with status
\* Succeeded resp. Failed.
C6_TerminalWrittenBeforeReturn ==
    (lastCall.op = "pay_invoice" /\ lastCall.result \in {"Ok", "RoutingFailed"}) =>
        LET rec == payments[lastCall.hash][FALSE] IN
        /\ rec.status = (IF lastCall.result = "Ok" THEN "Succeeded" ELSE "Failed")
        /\ lastCall.inv # None
        /\ rec = [status |-> lastCall.inv[1].status,
                  preimage |-> lastCall.inv[1].preimage,
                  fees |-> lastCall.inv[1].fees]

\* a payment returned as Ok whose stored record holds the preimage and fee
C6_Witness ==
    /\ lastCall.op = "pay_invoice"
    /\ lastCall.result = "Ok"
    /\ payments[lastCall.hash][FALSE].status = "Succeeded"
    /\ payments[lastCall.hash][FALSE].preimage # NoPreimage
    /\ payments[lastCall.hash][FALSE].fees # NoFee

\* the terminal update a step of a sweep got from the translator and had not
\* got before
NewlySeen == SeenBy(sweepCall', lastCall') \ SeenBy(sweepCall, NoCall)

\* C7 as stated: a step of a sweep in which the translator reports a
\* terminal status stores the payment with that status, and an outbound
\* payment reported as Success is stored with the operation's preimage.
C7_SweepStoresPreimage ==
    [][(lastCall'.op = "check_activity" /\ lastCall'.result # "StorageError") =>
          \A e \in NewlySeen :
              LET rec == payments'[e.upd.hash][e.upd.inbound] IN
              /\ rec.status = e.upd.status
              /\ (~e.upd.inbound /\ rec.status = "Succeeded") =>
                    rec.preimage = HexEncode(PreimageBytes(e.upd.hash))]_vars

\* C7, amended: a step of a sweep in which the translator reports a
\* terminal status stores the payment with that status; an outbound payment
\* reported as Success is stored with the operation's preimage when the
\* Success state came on the update stream, and without a preimage when the
\* subscription returned the already-resolved outcome.
C7_SweepStoresTerminalStatus ==
    [][(lastCall'.op = "check_activity" /\ lastCall'.result # "StorageError") =>
          \A e \in NewlySeen :
              LET rec == payments'[e.upd.hash][e.upd.inbound] IN
              /\ rec.status = e.upd.status
              /\ (~e.upd.inbound /\ rec.status = "Succeeded") =>
                    /\ e.sub = "Stream" =>
                          rec.preimage = HexEncode(PreimageBytes(e.upd.hash))
                    /\ e.sub = "Outcome" => rec.preimage = NoPreimage]_vars

\* a sweep that read Success from the stream of a payment stored as Pending
\* and stored it as Succeeded with the preimage
C7_Witness ==
    /\ lastCall.op = "check_activity"
    /\ lastCall.result = "Ok"
    /\ \E e \in lastCall.seen :
          /\ e.sub = "Stream"
          /\ ~e.upd.inbound
          /\ payments[e.upd.hash][FALSE].status = "Succeeded"
          /\ payments[e.upd.hash][FALSE].preimage = HexEncode(PreimageBytes(e.upd.hash))

\* C8: a check_activity that finds no stored payment Pending or InFlight
\* makes no list call and no subscription, leaves the store as it was and
\* returns Ok, all in the step that read the store.
C8_NoPendingNoListing ==
    [][(Starts("check_activity")
          /\ \A h \in Hashes, b \in BOOLEAN : ~(payments[h][b].status \in {"Pending", "InFlight"}))
       => /\ Returned(lastCall')
          /\ lastCall'.lists = 0
          /\ lastCall'.subs = 0
          /\ lastCall'.result = "Ok"
          /\ sweepCall' = Idle
          /\ payments' = payments]_vars

\* a sweep without a list call over a store that holds finished payments
C8_Witness ==
    /\ lastCall.op = "check_activity"
    /\ lastCall.result = "Ok"
    /\ lastCall.lists = 0
    /\ \E h \in Hashes, b \in BOOLEAN : IsFinal(payments[h][b].status)

\* C9: get_invoice_by_hash, when the record it reads from the store is
\* Succeeded or Failed, returns that record and makes no list call, no
\* subscription and no write.
C9_TerminalRecordReturnedAsStored ==
    [][(/\ lastCall'.op = "get_invoice_by_hash"
        /\ \/ /\ Starts("get_invoice_by_hash")
              /\ GetPaymentInfo(payments, lastCall'.hash) # {}
              /\ \A i \in GetPaymentInfo(payments, lastCall'.hash) :
                     i.status \in {"Succeeded", "Failed"}
           \/ /\ Returns("get_invoice_by_hash")
              /\ lastCall'.found # None
              /\ lastCall'.found[1].status \in {"Succeeded", "Failed"})
       => /\ Starts("get_invoice_by_hash")
          /\ lastCall'.result = "Ok"
          /\ lastCall'.inv # None
          /\ lastCall'.inv[1] \in GetPaymentInfo(payments, lastCall'.hash)
          /\ lastCall'.inv[1].status \in {"Succeeded", "Failed"}
          /\ lastCall'.lists = 0
          /\ lastCall'.subs = 0
          /\ payments' = payments]_vars

\* a Failed record returned without a list call
C9_Witness ==
    /\ lastCall.op = "get_invoice_by_hash"
    /\ lastCall.result = "Ok"
    /\ lastCall.lists = 0
    /\ lastCall.inv # None
    /\ lastCall.inv[1].status = "Failed"

\* the listed operations hold no Lightning entry for the hash
NoMatchingEntry(log, h) ==
    LET operations == ListOperations(log, FEDIMINT_OPERATIONS_LIST_MAX)
    IN  \A i \in 1..Len(operations) :
            ~(operations[i].module = "ln" /\ operations[i].hash = h)

\* what C10 says of a get_invoice_by_hash step whatever the store holds: no
\* matching Lightning entry among the listed operations gives NotFound, a
\* result comes from a Lightning entry of the hash only, and NotFound leaves
\* the store unchanged
NotFoundRule ==
    /\ (lastCall'.lists = 1 /\ NoMatchingEntry(oplog, lastCall'.hash)) =>
          /\ lastCall'.result = "NotFound"
          /\ lastCall'.subs = 0
    /\ (lastCall'.found # None
           /\ lastCall'.found[1].status \in {"Pending", "InFlight"}
           /\ NoMatchingEntry(oplog, lastCall'.hash)) =>
          /\ lastCall'.result = "NotFound"
          /\ lastCall'.lists = 1
    /\ (lastCall'.result = "Ok" /\ lastCall'.lists = 1) =>
          /\ ~NoMatchingEntry(oplog, lastCall'.hash)
          /\ lastCall'.inv # None
          /\ lastCall'.inv[1].hash = lastCall'.hash
    /\ lastCall'.result = "NotFound" => payments' = payments

\* C10 as stated: the rule above, and for a hash with no stored record
\* NotFound is returned after the operation log was listed and scanned.
C10_UnknownHashScansLog ==
    [][Returns("get_invoice_by_hash") =>
          /\ NotFoundRule
          /\ GetPaymentInfo(payments, lastCall'.hash) = {} =>
                /\ lastCall'.result = "NotFound"
                /\ lastCall'.lists = 1]_vars

\* C10, amended: the rule above, and for a hash with no stored record
\* NotFound is returned from the failed store lookup, before the operation
\* log is listed: no list call, no subscription, no write.
C10_UnknownHashFailsBeforeListing ==
    [][Returns("get_invoice_by_hash") =>
          /\ NotFoundRule
          /\ GetPaymentInfo(payments, lastCall'.hash) = {} =>
                /\ lastCall'.result = "NotFound"
                /\ lastCall'.lists = 0
                /\ lastCall'.subs = 0
                /\ payments' = payments]_vars

\* NotFound after a scan that passed over another module's entry and a
\* Lightning entry of another hash, for a payment stored as in flight
C10_Witness ==
    /\ lastCall.op = "get_invoice_by_hash"
    /\ lastCall.result = "NotFound"
    /\ lastCall.lists = 1
    /\ IsPending(payments[lastCall.hash][FALSE].status)
    /\ \E i \in 1..Len(oplog) : ~IsLightning(oplog[i])
    /\ \E i \in 1..Len(oplog) : IsLightning(oplog[i]) /\ oplog[i].hash # lastCall.hash

\* C30: for every entry of the operation log and every target hash, the
\* translator returns nothing when the entry's payment hash differs, and a
\* record of the target hash when it matches, whatever the subscription
\* returns; on a failed subscription the record is the invoice as issued,
\* with status Pending. A lookup subscribes to no entry it passes over and to
\* one entry at most; a lookup or a sweep that gets no terminal status, as
\* after a failed subscription, returns Ok and writes nothing.
C30_TranslatorMatchesOrReturnsNothing ==
    /\ [](\A i \in 1..Len(oplog), hash \in Hashes :
          IsLightning(oplog[i]) =>
              \A sub \in Subscriptions(oplog[i], ExtractKind(oplog[i])) :
                  LET got == extract_invoice_from_entry(oplog[i], hash, sub) IN
                  /\ oplog[i].hash # hash => got = None
                  /\ oplog[i].hash = hash =>
                        /\ got # None
                        /\ got[1].hash = hash
                        /\ sub.sub = "Err" =>
                              (got[1] = InvoiceInto(hash) /\ got[1].status = "Pending"))
    /\ [][/\ (lookupCall.stage = "listing" /\ lookupCall'.stage = "subscribing") =>
                /\ IsLightning(oplog[lookupCall'.key])
                /\ oplog[lookupCall'.key].hash = lookupCall.hash
                /\ \A k \in (lookupCall'.key + 1)..Len(oplog) :
                      ~(IsLightning(oplog[k]) /\ oplog[k].hash = lookupCall.hash)
          /\ Returns("get_invoice_by_hash") =>
                /\ lastCall'.subs = (IF lookupCall.stage = "subscribing" THEN 1 ELSE 0)
                /\ (lastCall'.lists = 1 /\ lastCall'.result = "NotFound")
                      <=> (lookupCall.stage = "listing"
                              /\ NoMatchingEntry(oplog, lastCall'.hash))
                /\ (lastCall'.subs = 1 /\ lastCall'.seen = {}) =>
                      /\ lastCall'.result = "Ok"
                      /\ lastCall'.inv # None
                      /\ ~IsFinal(lastCall'.inv[1].status)
                      /\ payments' = payments
          /\ Returns("check_activity") =>
                (SeenBy(sweepCall', lastCall') = {}
                    => (lastCall'.result = "Ok" /\ payments' = payments))]_vars

\* a lookup that passed over a newer entry that is not of its hash,
\* subscribed to the Pay entry of its hash, had the subscription fail and
\* returned Ok with the invoice as issued
C30_Witness ==
    /\ lastCall.op = "get_invoice_by_hash"
    /\ lastCall.result = "Ok"
    /\ lastCall.subs = 1
    /\ lastCall.inv = Some(InvoiceInto(lastCall.hash))
    /\ Len(oplog) = 2
    /\ oplog[1].hash = lastCall.hash
    /\ oplog[1].variant = "Pay"
    /\ oplog[2].hash # lastCall.hash

\* C27: a step of check_activity or get_invoice_by_hash writes to the payment
\* store only records with a terminal status that the translator returned
\* for that payment hash from a Lightning entry of the listing; a sweep that
\* found no terminal status, and a lookup whose reconciled status is still
\* Pending or InFlight, leave the store unchanged and return Ok; a
\* pay_invoice that returns PaymentTimeout writes nothing: the outbound
\* record stays the Pending record written at initiation, or the terminal
\* record a sweep or lookup stored for the hash while the call was waiting.
C27_OnlyTerminalRecordsWritten ==
    [][/\ lastCall'.op = "check_activity" =>
             /\ \A h \in Hashes, b \in BOOLEAN :
                   Written(h, b) =>
                       /\ IsFinal(payments'[h][b].status)
                       /\ ~NoMatchingEntry(oplog, h)
                       /\ sweepCall.stage = "looping"
                       /\ h = Head(sweepCall.pending).hash
                       /\ \E e \in SeenBy(sweepCall', lastCall') :
                             /\ e.upd.hash = h
                             /\ e.upd.inbound = b
                             /\ payments'[h][b] = PaymentInfoFrom(e.upd)
             /\ (Returns("check_activity") /\ lastCall'.seen = {}) =>
                   (payments' = payments /\ lastCall'.result = "Ok")
       /\ lastCall'.op = "get_invoice_by_hash" =>
             /\ \A h \in Hashes, b \in BOOLEAN :
                   Written(h, b) =>
                       /\ Returns("get_invoice_by_hash")
                       /\ IsFinal(payments'[h][b].status)
                       /\ ~NoMatchingEntry(oplog, h)
                       /\ h = lastCall'.hash
                       /\ lastCall'.inv # None
                       /\ b = lastCall'.inv[1].inbound
                       /\ payments'[h][b] = PaymentInfoFrom(lastCall'.inv[1])
             /\ (Returns("get_invoice_by_hash")
                    /\ lastCall'.inv # None /\ IsPending(lastCall'.inv[1].status)) =>
                   (payments' = payments /\ lastCall'.result = "Ok")
       /\ (Returns("pay_invoice") /\ lastCall'.result = "PaymentTimeout") =>
             /\ payments' = payments
             /\ \/ payments'[lastCall'.hash][FALSE] = PendingInfo(lastCall'.hash, FALSE)
                \/ IsFinal(payments'[lastCall'.hash][FALSE].status)]_vars

\* a sweep that subscribed for a stored Pending payment, read a status that
\* is not terminal, returned Ok and left the Pending record in the store
C27_Witness ==
    /\ lastCall.op = "check_activity"
    /\ lastCall.result = "Ok"
    /\ lastCall.subs >= 1
    /\ lastCall.seen = {}
    /\ \E h \in Hashes, b \in BOOLEAN :
          /\ payments[h][b] = PendingInfo(h, b)
          /\ ~NoMatchingEntry(oplog, h)

(***************************************************************************)
(* process_outcome, one loop iteration at a time                           *)
(***************************************************************************)
StreamKinds == {"Receive", "Internal", "Lightning"}

\* every value of LnReceiveState, InternalPayState and LnPayState
StatesOf(kind) ==
    CASE kind = "Receive" ->
            {St("Created"), St("WaitingForPayment"), St("Canceled"), St("Funded"),
             St("AwaitingFunds"), St("Claimed")}
      [] kind = "Internal" ->
            {St("Funding"), [name |-> "Preimage", preimage |-> PreimageBytes(1)],
             St("RefundSuccess"), St("RefundError"), St("FundingFailed"),
             St("UnexpectedError")}
      [] kind = "Lightning" ->
            {St("Created"), St("Canceled"), St("Funded"), St("WaitingForRefund"),
             St("AwaitingChange"),
             [name |-> "Success", preimage |-> HexEncode(PreimageBytes(1))],
             St("Refunded"), St("UnexpectedError")}

\* the update streams of at most MaxStream states
StreamsOf(kind) ==
    UNION {[1..n -> StatesOf(kind)] : n \in 0..MaxStream}

\* a call of process_outcome entered with a subscription result
ProcCall(kind, sub) ==
    [stage |-> "running", kind |-> kind, sub |-> sub,
     rest |-> IF sub.sub = "Stream" THEN sub.states ELSE <<>>,
     applied |-> <<>>, timer |-> FALSE,
     invoice |-> [InvoiceInto(1) EXCEPT !.inbound = (kind = "Receive")]]

ProcInit ==
    \E kind \in StreamKinds :
        \/ \E states \in StreamsOf(kind) :
              proc = ProcCall(kind, [sub |-> "Stream", states |-> states, cut |-> 0])
        \/ \E outcome \in StatesOf(kind) :
              proc = ProcCall(kind, [sub |-> "Outcome", outcome |-> outcome])

\* a loop that would go on after a terminal status
NeverBreak(status) == FALSE

\* the break on matches!(invoice.status, Succeeded | Failed)
BreakOn(status) == IsFinal(status)

\* UpdateStreamOrOutcome::Outcome(outcome): the status is set, nothing else
ProcOutcome ==
    /\ proc.stage = "running"
    /\ proc.sub.sub = "Outcome"
    /\ proc' = [proc EXCEPT !.stage = "returned",
                            !.invoice.status = StatusOf(proc.kind, proc.sub.outcome)]
    /\ UNCHANGED nonProcVars

\* s.next() wins the race with Some(outcome): process_fn, then the break test
ProcApply ==
    /\ proc.stage = "running"
    /\ proc.sub.sub = "Stream"
    /\ proc.rest # <<>>
    /\ LET next == ProcessFn(proc.kind, Head(proc.rest), proc.invoice) IN
       proc' = [proc EXCEPT !.invoice = next,
                            !.rest = Tail(@),
                            !.applied = Append(@, Head(proc.rest)),
                            !.stage = IF BreakOn(next.status) THEN "returned" ELSE @]
    /\ UNCHANGED nonProcVars

\* s.next() wins the race with None: the stream has ended
ProcStreamEnd ==
    /\ proc.stage = "running"
    /\ proc.sub.sub = "Stream"
    /\ proc.rest = <<>>
    /\ proc' = [proc EXCEPT !.stage = "returned"]
    /\ UNCHANGED nonProcVars

\* the sleep wins the race: the while-let stops
ProcTimeout ==
    /\ proc.stage = "running"
    /\ proc.sub.sub = "Stream"
    /\ proc' = [proc EXCEPT !.stage = "returned", !.timer = TRUE]
    /\ UNCHANGED nonProcVars

ProcNext ==
    \/ ProcOutcome
    \/ ProcApply
    \/ ProcStreamEnd
    \/ ProcTimeout

\* the stream the call was entered with
ProcInput == proc.applied \o proc.rest

\* C11: the outcome processor applies the states in stream order, applies
\* none after the first one that maps to Succeeded or Failed, after the end
\* of the stream or after the timer has fired, and returns an invoice whose
\* status is the mapping of the last state applied, Pending when none was.
C11_StatesAppliedInOrderUntilStop ==
    (proc.stage # "none" /\ proc.sub.sub = "Stream") =>
        LET n == Len(proc.applied) IN
        /\ proc.applied = SubSeq(proc.sub.states, 1, n)
        /\ proc.rest = SubSeq(proc.sub.states, n + 1, Len(proc.sub.states))
        /\ \A i \in 1..(n - 1) :
              StatusOf(proc.kind, proc.applied[i]) \notin {"Succeeded", "Failed"}
        /\ proc.invoice.status =
              (IF n = 0 THEN "Pending" ELSE StatusOf(proc.kind, proc.applied[n]))
        /\ proc.stage = "returned" =>
              /\ \/ proc.timer
                 \/ n = Len(proc.sub.states)
                 \/ (n > 0 /\ proc.invoice.status \in {"Succeeded", "Failed"})
              /\ proc.invoice = process_outcome([proc.sub EXCEPT !.cut = n], proc.kind,
                                                proc.invoice.hash, proc.invoice.inbound)

\* a call that returned on a terminal state with a state of the stream left
\* unread
C11_Witness ==
    /\ proc.stage = "returned"
    /\ proc.sub.sub = "Stream"
    /\ ~proc.timer
    /\ Len(proc.applied) = 2
    /\ proc.rest # <<>>
    /\ proc.invoice.status = "Failed"

\* the state whose conversion set the status of the invoice, if any
ProcConverted ==
    IF proc.stage = "none" THEN <<>>
    ELSE IF proc.sub.sub = "Outcome"
         THEN (IF proc.stage = "returned" THEN <<proc.sub.outcome>> ELSE <<>>)
         ELSE (IF proc.applied = <<>> THEN <<>>
               ELSE <<proc.applied[Len(proc.applied)]>>)

\* C12: each of the three state-to-status conversions gives, for every source
\* state, the status of the table: Receive {Created, WaitingForPayment} ->
\* Pending, Claimed -> Succeeded, Canceled -> Failed, {Funded, AwaitingFunds}
\* -> InFlight; InternalPay Funding -> InFlight, Preimage -> Succeeded, the
\* four error states -> Failed; LnPay Created -> Pending, {Funded,
\* WaitingForRefund, AwaitingChange} -> InFlight, Success -> Succeeded,
\* {Canceled, Refunded, UnexpectedError} -> Failed.
C12_StatusTable ==
    ProcConverted # <<>> =>
        LET name == ProcConverted[1].name
            status == proc.invoice.status
        IN  /\ status \in {"Pending", "InFlight", "Succeeded", "Failed"}
            /\ proc.kind = "Receive" =>
                  /\ status = "Pending" <=> name \in {"Created", "WaitingForPayment"}
                  /\ status = "Succeeded" <=> name = "Claimed"
                  /\ status = "Failed" <=> name = "Canceled"
                  /\ status = "InFlight" <=> name \in {"Funded", "AwaitingFunds"}
            /\ proc.kind = "Internal" =>
                  /\ status = "InFlight" <=> name = "Funding"
                  /\ status = "Succeeded" <=> name = "Preimage"
                  /\ status = "Failed" <=> name \in {"RefundSuccess", "RefundError",
                                                      "FundingFailed", "UnexpectedError"}
                  /\ status # "Pending"
            /\ proc.kind = "Lightning" =>
                  /\ status = "Pending" <=> name = "Created"
                  /\ status = "InFlight" <=> name \in {"Funded", "WaitingForRefund",
                                                        "AwaitingChange"}
                  /\ status = "Succeeded" <=> name = "Success"
                  /\ status = "Failed" <=> name \in {"Canceled", "Refunded",
                                                      "UnexpectedError"}

\* an LnPay outcome AwaitingChange converted to InFlight
C12_Witness ==
    /\ proc.stage = "returned"
    /\ proc.kind = "Lightning"
    /\ proc.sub.sub = "Outcome"
    /\ proc.sub.outcome.name = "AwaitingChange"
    /\ proc.invoice.status = "InFlight"

\* a preimage is present only in a Succeeded invoice
PreimageOnlyIfSucceeded(invoice) ==
    invoice.preimage # NoPreimage => invoice.status = "Succeeded"

\* the log entry of the operation whose subscription the call was given
ProcEntry ==
    [(IF proc.kind = "Receive" THEN ReceiveEntry(proc.invoice.hash)
      ELSE PayEntry(proc.invoice.hash, proc.kind))
        EXCEPT !.states = IF proc.sub.sub = "Stream" THEN proc.sub.states
                          ELSE <<proc.sub.outcome>>]

\* the subscription results whose processing gave the invoice of the call
ProcSubs ==
    {[sub |-> "Err"],
     IF proc.sub.sub = "Stream" THEN [proc.sub EXCEPT !.cut = Len(proc.applied)]
     ELSE proc.sub}

\* C28: the invoice the outcome processor holds and returns, and the record
\* the translator returns for the same entry and subscription result (it
\* subscribes to Lightning pay and receive streams only), carry
\* a preimage only with the status Succeeded; a pay state other than the
\* success state, applied to an invoice that holds a preimage, removes it;
\* an invoice processed with receive states has no preimage.
C28_PreimageOnlyIfSucceeded ==
    proc.stage # "none" =>
        /\ PreimageOnlyIfSucceeded(proc.invoice)
        /\ proc.kind = "Receive" => proc.invoice.preimage = NoPreimage
        /\ \A sub \in (IF proc.kind = ExtractKind(ProcEntry) THEN ProcSubs ELSE {}) :
              LET got == extract_invoice_from_entry(ProcEntry, proc.invoice.hash, sub)
              IN  /\ got # <<>>
                  /\ PreimageOnlyIfSucceeded(got[1])
                  /\ ProcEntry.variant = "Receive" => got[1].preimage = NoPreimage
        /\ \A state \in StatesOf(proc.kind) :
              LET held == [proc.invoice EXCEPT !.preimage = <<1>>]
                  next == ProcessFn(proc.kind, state, held)
              IN  /\ proc.kind # "Receive" => PreimageOnlyIfSucceeded(next)
                  /\ (proc.kind # "Receive" /\ next.status # "Succeeded") =>
                        next.preimage = NoPreimage
                  /\ proc.kind = "Receive" => next.preimage = held.preimage

\* a call that applied a state in flight and then Success, and returned a
\* Succeeded invoice with the preimage
C28_Witness ==
    /\ proc.stage = "returned"
    /\ proc.kind = "Lightning"
    /\ Len(proc.applied) = 2
    /\ proc.invoice.status = "Succeeded"
    /\ proc.invoice.preimage = HexEncode(PreimageBytes(1))

(***************************************************************************)
(* FederationClient::new and the FedimintStorage::new it runs              *)
(***************************************************************************)
Networks == {"Bitcoin", "Testnet", "Signet", "Regtest"}

StoredVersions == 1..MaxVersion

\* the working sets a snapshot can hold
StoredMaps == UNION {[ks -> ValSet] : ks \in SUBSET KeySet}

\* snapshots as commit_tx writes them
SoundSnapshots ==
    {SnapshotValue(FindByPrefix([data |-> m], <<>>), v) :
        m \in StoredMaps, v \in StoredVersions}

\* a snapshot whose payload is the empty string
EmptySnapshots ==
    {[present |-> TRUE, version |-> v, value |-> JsonString(<<>>)] :
        v \in StoredVersions}

\* a stored value that is JSON but not a string
NotStringSnapshots ==
    {[present |-> TRUE, version |-> v, value |-> [type |-> ty]] :
        v \in StoredVersions, ty \in {"Null", "Number", "Object"}}

\* the payload of snapshot s cut to its first n characters
CutPayload(s, n) == [s EXCEPT !.value.s = SubSeq(@, 1, n)]

\* hex that does not decode: an odd number of digits, or a character that
\* is no hex digit
BadHexSnapshots ==
    UNION {{CutPayload(s, n) : n \in {i \in 1..Len(s.value.s) : i % 2 = 1}} :
              s \in SoundSnapshots}
    \cup {[s EXCEPT !.value.s[1] = "g"] : s \in SoundSnapshots}
    \cup {[s EXCEPT !.value.s[Len(s.value.s)] = "x"] : s \in SoundSnapshots}

\* hex of bytes that end before the pairs they announce
BadBincodeSnapshots ==
    UNION {{CutPayload(s, n) : n \in {i \in 2..(Len(s.value.s) - 2) : i % 2 = 0}} :
              s \in SoundSnapshots}

SnapshotKinds == {"Absent", "Sound", "Empty", "NotString", "BadHex", "BadBincode"}

\* the stored values of each kind
StoredValues(kind) ==
    CASE kind = "Absent" -> {NoSnapshot}
      [] kind = "Sound" -> SoundSnapshots
      [] kind = "Empty" -> EmptySnapshots
      [] kind = "NotString" -> NotStringSnapshots
      [] kind = "BadHex" -> BadHexSnapshots
      [] kind = "BadBincode" -> BadBincodeSnapshots

\* the arguments of FederationClient::new and the external storage it finds
BootCall(kind, stored, network) ==
    [stage |-> "start", kind |-> kind, stored |-> stored, network |-> network,
     reported |-> "none", err |-> "none", readable |-> TRUE]

BootInit ==
    /\ ext \in UNION {StoredValues(kind) : kind \in SnapshotKinds}
    /\ mem = EmptyMap
    /\ version = 0
    /\ loaded = 0
    /\ tx = [t \in TxIds |-> NoTx]
    /\ okCommits = 0
    /\ attempts = 0
    /\ writes = 0
    /\ lastCommit = NoCommit
    /\ ClientInit
    /\ payments = [h \in Hashes |-> [b \in BOOLEAN |-> NoRecord]]
    /\ proc = NoProc
    /\ derive = NoDerive
    /\ NoCommits
    /\ \E network \in Networks, kind \in SnapshotKinds :
          /\ ext \in StoredValues(kind)
          /\ boot = BootCall(kind, ext, network)

BootFailed(err) == [boot EXCEPT !.stage = "failed", !.err = err]

\* FederationInfo::from_invite_code(..).await?
ResolveInvite(resolved) ==
    /\ boot.stage = "start"
    /\ boot' = IF resolved THEN [boot EXCEPT !.stage = "resolved"]
               ELSE BootFailed("InviteError")
    /\ UNCHANGED <<storeVars, nonBootVars>>

\* FedimintStorage::new(..).await?: get_data fails (panic), or the stored
\* value goes through the decoding of NewAdapter
NewStorage(readable) ==
    /\ boot.stage = "resolved"
    /\ IF ~readable
       THEN /\ boot' = [BootFailed("panic") EXCEPT !.readable = FALSE]
            /\ UNCHANGED <<mem, version, loaded>>
       ELSE LET adapter == NewAdapter(ext) IN
            IF adapter.ok
            THEN /\ boot' = [boot EXCEPT !.stage = "storage"]
                 /\ mem' = adapter.mem
                 /\ version' = adapter.version
                 /\ loaded' = adapter.version
            ELSE /\ boot' = BootFailed("ReadError")
                 /\ UNCHANGED <<mem, version, loaded>>
    /\ UNCHANGED <<ext, tx, okCommits, attempts, writes, lastCommit, nonBootVars>>

\* create_federation_secret(..)? and client_builder.build(..).await?
BuildClient(built) ==
    /\ boot.stage = "storage"
    /\ boot' = IF built THEN [boot EXCEPT !.stage = "client"]
               ELSE BootFailed("BuildError")
    /\ UNCHANGED <<storeVars, nonBootVars>>

\* a check that would let every federation through
NetworkDiffersNever(expected, reported) == FALSE

\* network != wallet_client.get_network()
NetworkDiffers(expected, reported) == expected # reported

\* the network check and the return of FederationClient::new
CheckNetwork(reported) ==
    /\ boot.stage = "client"
    /\ boot' = IF NetworkDiffers(boot.network, reported)
               THEN [BootFailed("NetworkMismatch") EXCEPT !.reported = reported]
               ELSE [boot EXCEPT !.stage = "ready", !.reported = reported]
    /\ UNCHANGED <<storeVars, nonBootVars>>

BootNext ==
    \/ \E resolved \in BOOLEAN : ResolveInvite(resolved)
    \/ \E readable \in BOOLEAN : NewStorage(readable)
    \/ \E built \in BOOLEAN : BuildClient(built)
    \/ \E reported \in Networks : CheckNetwork(reported)

\* FedimintStorage::new has run in the call under way
StorageTried ==
    \/ boot.stage \in {"storage", "client", "ready"}
    \/ boot.stage = "failed" /\ boot.err # "InviteError"

\* a stored value of one of the kinds that do not decode
Damaged == boot.kind \in {"NotString", "BadHex", "BadBincode"}

\* C14: when a snapshot is present under the federation's key and cannot be
\* decoded (the external read fails, the value is not a JSON string, the hex
\* is invalid, or the bytes are no encoding of key/value pairs), the
\* construction of the adapter fails with an error or a panic: no adapter
\* comes out of it, with an empty or a partly loaded working set or
\* otherwise, and the stored snapshot is left as it was.
C14_DamagedSnapshotFailsConstruction ==
    (StorageTried /\ boot.stored.present
       /\ (Damaged \/ ~boot.readable)) =>
        /\ boot.stage = "failed"
        /\ boot.err = (IF boot.readable THEN "ReadError" ELSE "panic")
        /\ loaded = 0 /\ version = 0 /\ mem = EmptyMap
        /\ ext = boot.stored

\* the construction failed on hex that decodes to a cut-off list of pairs
C14_Witness ==
    /\ boot.stage = "failed"
    /\ boot.err = "ReadError"
    /\ boot.kind = "BadBincode"
    /\ boot.stored.version = 2

\* C15: a stored snapshot whose payload is the empty string is accepted:
\* the construction succeeds although the payload would not decode, the
\* working set is empty and the version counter is the stored version; with
\* no snapshot stored the construction succeeds with an empty working set
\* and version 0.
C15_EmptyPayloadAndAbsentSnapshotLoad ==
    (StorageTried /\ boot.readable) =>
        /\ boot.kind = "Empty" =>
              /\ boot.err \notin {"ReadError", "panic"}
              /\ ~BincodeDeserialize(FromHex(boot.stored.value.s).bytes).ok
              /\ mem = EmptyMap
              /\ version = boot.stored.version
              /\ loaded = boot.stored.version
        /\ ~boot.stored.present =>
              /\ boot.err \notin {"ReadError", "panic"}
              /\ mem = EmptyMap
              /\ version = 0
              /\ loaded = 0

\* an adapter built on an empty-string snapshot of version 2
C15_Witness ==
    /\ boot.stage = "storage"
    /\ boot.kind = "Empty"
    /\ version = 2

\* C17: the construction returns NetworkMismatch, and no client, whenever
\* the network the wallet module reports differs from the expected one, and
\* returns a client only when the two are equal; a call that failed returns
\* nothing more, and an invite code that does not resolve fails the call at
\* its first step, so that no storage adapter is built.
C17_NetworkCheckedAndInviteFirst ==
    [][/\ (boot.stage = "client" /\ boot'.stage # "client") =>
            IF boot'.reported # boot.network
            THEN boot'.stage = "failed" /\ boot'.err = "NetworkMismatch"
            ELSE boot'.stage = "ready"
       /\ boot'.stage = "ready" => boot'.reported = boot'.network
       /\ boot'.err = "InviteError" =>
            /\ boot.stage \in {"start", "failed"}
            /\ UNCHANGED storeVars
       /\ boot.stage = "failed" => UNCHANGED <<boot, storeVars>>]_vars

\* a federation on signet joined by a wallet on mainnet
C17_Witness ==
    /\ boot.stage = "failed"
    /\ boot.err = "NetworkMismatch"
    /\ boot.network = "Bitcoin"
    /\ boot.reported = "Signet"

\* an invite code that did not resolve, over a stored snapshot
C17_InviteWitness ==
    /\ boot.stage = "failed"
    /\ boot.err = "InviteError"
    /\ boot.kind = "Sound"


(***************************************************************************)
(* Secret derivation: key.rs and create_federation_secret.  Keys are terms:*)
(* a hardened child is the pair of its parent and its child number.        *)
(***************************************************************************)
\* ExtendedPrivKey::new_master(network, seed)
NewMaster(network, seed) ==
    [network |-> network, private_key |-> [seed |-> seed]]

Xprivs == {NewMaster(network, seed) : network \in Networks, seed \in 1..MaxSeed}

\* a numbering that would give every child kind index 0
ChildNumberZero(child_key) == 0

\* ChildKey::to_child_number
to_child_number(child_key) ==
    CASE child_key = "NodeChildKey" -> 0
      [] child_key = "FederationChildKey" -> 1

\* ChildNumber::from_hardened_idx
FromHardenedIdx(index) == [hardened |-> TRUE, index |-> index]

\* ExtendedPrivKey::derive_priv over a path of one child number
DerivePriv(xpriv, child_number) ==
    [network |-> xpriv.network,
     private_key |-> [parent |-> xpriv.private_key, child |-> child_number]]

create_root_child_key(xprivkey, child_key) ==
    DerivePriv(xprivkey, FromHardenedIdx(to_child_number(child_key)))

\* the BIP44 coin type: 0 on mainnet, 1 on every test network
coin_type_from_network(network) == IF network = "Bitcoin" THEN 0 ELSE 1

\* length in bytes of SecretKey::secret_bytes()
SECRET_KEY_SIZE == 32

\* xpriv.private_key.secret_bytes()
SecretBytes(xpriv) == [i \in 1..SECRET_KEY_SIZE |-> <<xpriv.private_key, i>>]

\* the first half of the secret bytes
SecretBytesHalved(xpriv) ==
    [i \in 1..(SECRET_KEY_SIZE \div 2) |-> <<xpriv.private_key, i>>]

\* Mnemonic::from_entropy: one word for every 11 bits of the entropy and of
\* its checksum, which has one bit for every 32 bits of entropy
FromEntropy(entropy) ==
    LET nb_bits == Len(entropy) * 8 IN
    IF nb_bits % 32 # 0 \/ nb_bits < 128 \/ nb_bits > 256
    THEN [ok |-> FALSE]
    ELSE [ok |-> TRUE, entropy |-> entropy,
          word_count |-> (nb_bits + nb_bits \div 32) \div 11]

\* a mnemonic drawn from half of the secret bytes
MnemonicFromHalf(xpriv) == FromEntropy(SecretBytesHalved(xpriv))

mnemonic_from_xpriv(xpriv) == FromEntropy(SecretBytes(xpriv))

\* Bip39RootSecretStrategy::to_root_secret
ToRootSecret(mnemonic) == [root_of |-> mnemonic.entropy]

\* a secret taken from the shared key, without the network's child
FederationSecretOfSharedKey(xprivkey, network) ==
    LET shared_key == create_root_child_key(xprivkey, "FederationChildKey")
        mnemonic == mnemonic_from_xpriv(shared_key)
    IN  [ok |-> mnemonic.ok, mnemonic |-> mnemonic, secret |-> ToRootSecret(mnemonic)]

create_federation_secret(xprivkey, network) ==
    LET shared_key == create_root_child_key(xprivkey, "FederationChildKey")
        xpriv == DerivePriv(shared_key,
                            FromHardenedIdx(coin_type_from_network(network)))
        mnemonic == mnemonic_from_xpriv(xpriv)
    IN  [ok |-> mnemonic.ok, mnemonic |-> mnemonic, secret |-> ToRootSecret(mnemonic)]

NotDerived == [ok |-> FALSE]

\* one xpriv and the networks of two calls of create_federation_secret
DeriveInit ==
    \E xprivkey \in Xprivs, n1 \in Networks, n2 \in Networks :
        derive = [asked |-> TRUE, xprivkey |-> xprivkey,
                  network |-> <<n1, n2>>, out |-> <<NotDerived, NotDerived>>]

\* call i of create_federation_secret returns
Derive(i) ==
    /\ derive.asked
    /\ ~derive.out[i].ok
    /\ derive' = [derive EXCEPT
                    !.out[i] = create_federation_secret(derive.xprivkey,
                                                        derive.network[i])]
    /\ UNCHANGED nonDeriveVars

DeriveNext == \E i \in {1, 2} : Derive(i)

\* both calls have returned a secret
BothDerived == derive.asked /\ derive.out[1].ok /\ derive.out[2].ok

TestNetworks == {"Testnet", "Signet", "Regtest"}

\* C16: two derivations of the per-federation secret from one xpriv give
\* the same secret when their networks are the same, and different secrets
\* when one network is mainnet and the other a test network; testnet, signet
\* and regtest have one coin type and one secret.
C16_SecretSameExactlyOnSameCoinType ==
    BothDerived =>
        (derive.out[1].secret = derive.out[2].secret
            <=> \/ derive.network[1] = derive.network[2]
                \/ {derive.network[1], derive.network[2]} \subseteq TestNetworks)

\* C16 as stated: the secrets of every two distinct networks differ
C16_SecretDiffersOnDistinctNetworks ==
    BothDerived =>
        (derive.out[1].secret = derive.out[2].secret
            <=> derive.network[1] = derive.network[2])

\* mainnet and regtest derived from one xpriv
C16_Witness ==
    /\ BothDerived
    /\ derive.network = <<"Bitcoin", "Regtest">>
    /\ derive.out[1].secret # derive.out[2].secret

\* C20: the mnemonic made from the 32 secret bytes of the derived key has
\* 24 words.
C20_MnemonicHas24Words ==
    \A i \in {1, 2} : (derive.asked /\ derive.out[i].ok) =>
        /\ Len(derive.out[i].mnemonic.entropy) = 32
        /\ derive.out[i].mnemonic.word_count = 24

\* C20 as stated: the mnemonic has 12 words
C20_MnemonicHas12Words ==
    \A i \in {1, 2} : (derive.asked /\ derive.out[i].ok) =>
        derive.out[i].mnemonic.word_count = 12

\* a secret derived on mainnet, with its mnemonic
C20_Witness ==
    /\ derive.asked
    /\ derive.out[1].ok
    /\ derive.network[1] = "Bitcoin"
    /\ derive.out[1].secret = ToRootSecret(derive.out[1].mnemonic)


(***************************************************************************)
(* commit_tx step by step, for handles that commit side by side            *)
(***************************************************************************)
\* begin_transaction on a handle that is not in commit_tx
BeginConcurrent(t) ==
    /\ commit[t].phase = "idle"
    /\ BeginTransaction(t)

\* what commit_tx returns after set_data
WriteReturnsOk(landed) == "ok"

\* storage.set_data(..)?; Ok(())
WriteReturns(landed) == IF landed THEN "ok" ELSE "err"

\* commit_tx returns on handle t
CommitReturns(t, result) ==
    /\ commit' = [commit EXCEPT ![t] = NotCommitting]
    /\ lastCommit' = [result |-> result]
    /\ okCommits' = IF result = "ok" THEN okCommits + 1 ELSE okCommits

\* the scan over the empty prefix and self.mem.commit_tx().await?: on a
\* write-write conflict commit_tx returns the error, with the map changed by
\* the operations up to the one in conflict
CommitMem(t) ==
    /\ tx[t].open
    /\ commit[t].phase = "idle"
    /\ tx' = [tx EXCEPT ![t] = NoTx]
    /\ attempts' = attempts + 1
    /\ mem' = MemCommit(mem, tx[t]).db
    /\ IF MemCommit(mem, tx[t]).ok
       THEN /\ commit' = [commit EXCEPT ![t] =
                            [phase |-> "committed",
                             key_value_pairs |-> CommitPairs(tx[t])]]
            /\ UNCHANGED <<lastCommit, okCommits>>
       ELSE CommitReturns(t, "err")
    /\ UNCHANGED <<ext, version, loaded, writes, written, nonCommitVars>>

\* bincode::serialize(..)?, hex::encode and fetch_add(1, SeqCst)
CommitVersion(t, serialized) ==
    /\ commit[t].phase = "committed"
    /\ IF serialized
       THEN /\ version' = version + 1
            /\ commit' = [commit EXCEPT ![t] =
                            [phase |-> "versioned",
                             value |-> SnapshotValue(commit[t].key_value_pairs,
                                                     version + 1)]]
            /\ UNCHANGED <<lastCommit, okCommits>>
       ELSE /\ CommitReturns(t, "err")
            /\ UNCHANGED version
    /\ UNCHANGED <<ext, mem, tx, loaded, attempts, writes, written, nonCommitVars>>

\* storage.set_data(key, value, Some(version))? and the return
CommitWrite(t, landed) ==
    /\ commit[t].phase = "versioned"
    /\ ext' = SetData(ext, commit[t].value, landed)
    /\ written' = IF landed THEN Append(written, commit[t].value.version)
                  ELSE written
    /\ CommitReturns(t, WriteReturns(landed))
    /\ UNCHANGED <<mem, version, tx, loaded, attempts, writes, nonCommitVars>>

ConcurrentNext ==
    \/ \E t \in TxIds : BeginConcurrent(t)
    \/ \E t \in TxIds, k \in KeySet, v \in ValSet : RawInsertBytes(t, k, v)
    \/ \E t \in TxIds, k \in KeySet : RawRemoveEntry(t, k)
    \/ \E t \in TxIds : CommitMem(t)
    \/ \E t \in TxIds, serialized \in BOOLEAN : CommitVersion(t, serialized)
    \/ \E t \in TxIds, landed \in BOOLEAN : CommitWrite(t, landed)

\* no commit_tx call is under way
AllReturned == \A t \in TxIds : commit[t].phase = "idle"

\* C18: the versions that commits write to external storage come in
\* strictly increasing order without a gap, starting after the loaded
\* version: none is used twice and none is skipped, and once every commit
\* has returned the snapshot left in external storage carries the highest
\* of them.
C18_WrittenVersionsIncreasingGapFree ==
    /\ \A i \in 1..Len(written) : written[i] = loaded + i
    /\ (AllReturned /\ written # <<>>) =>
          \A i \in 1..Len(written) : ext.version >= written[i]

\* the step in which commit_tx returns on handle t
ReturnStep(t) ==
    /\ commit'[t].phase = "idle"
    /\ \/ tx[t].open /\ ~tx'[t].open
       \/ commit[t].phase # "idle"

\* C19: commit_tx returns Ok only in the step that wrote its snapshot to
\* external storage; it returns an error when the in-memory commit (a
\* write-write conflict), the serialization or the external write fails, and
\* a failed in-memory commit leaves the version counter and the external
\* snapshot as they were.
C19_OkOnlyIfSnapshotWritten ==
    [][\A t \in TxIds : ReturnStep(t) =>
           /\ lastCommit'.result \in {"ok", "err"}
           /\ lastCommit'.result = "ok" <=>
                 /\ commit[t].phase = "versioned"
                 /\ ext' = commit[t].value
           /\ tx[t].open =>
                 /\ ~ApplyOps(mem, tx[t].ops).ok
                 /\ lastCommit'.result = "err"
                 /\ version' = version
                 /\ ext' = ext
           /\ commit[t].phase = "committed" => ext' = ext]_vars

\* a commit returned an error before the version was counted up, after an
\* earlier one wrote version 1
C19_Witness ==
    /\ AllReturned
    /\ lastCommit.result = "err"
    /\ written = <<1>>
    /\ version = 1
    /\ attempts = 2

(***************************************************************************)
(* create_root_child_key on two wallets, and the child keys' mnemonics     *)
(***************************************************************************)
ChildKeys == {"NodeChildKey", "FederationChildKey"}

\* length in bytes of the entropy of a 12-word seed phrase
ROOT_ENTROPY_SIZE == 16

\* the wallet's seed phrase, from which new_master makes the xpriv
RootMnemonic(seed) ==
    FromEntropy([i \in 1..ROOT_ENTROPY_SIZE |-> <<"root", seed, i>>])

\* two calls of create_root_child_key, each with its xpriv and child kind
ChildInit ==
    \E x1 \in Xprivs, x2 \in Xprivs, k1 \in ChildKeys, k2 \in ChildKeys :
        derive = [asked |-> FALSE, xprivkey |-> <<x1, x2>>,
                  child_key |-> <<k1, k2>>,
                  child |-> <<NotDerived, NotDerived>>]

\* call i of create_root_child_key returns; its mnemonic is taken
CreateChild(i) ==
    /\ ~derive.asked
    /\ "child" \in DOMAIN derive
    /\ ~derive.child[i].ok
    /\ LET key == create_root_child_key(derive.xprivkey[i], derive.child_key[i])
       IN  derive' = [derive EXCEPT
                        !.child[i] = [ok |-> TRUE, key |-> key,
                                      mnemonic |-> mnemonic_from_xpriv(key)]]
    /\ UNCHANGED nonDeriveVars

ChildNext == \E i \in {1, 2} : CreateChild(i)

\* both calls have returned
BothChildren == derive.child[1].ok /\ derive.child[2].ok

\* the seed phrase number behind xpriv i
SeedOf(i) == derive.xprivkey[i].private_key.seed

\* C21: create_root_child_key gives the hardened child 0 of the xpriv for
\* NodeChildKey and the hardened child 1 for FederationChildKey; two calls
\* with the same xpriv give the same key for the same kind and different
\* keys for the two kinds; the mnemonic of the federation child differs from
\* the wallet's seed phrase, and wallets with distinct seed phrases have
\* distinct federation child mnemonics.
C21_ChildKeysByHardenedIndex ==
    /\ \A i \in {1, 2} : derive.child[i].ok =>
          /\ derive.child[i].key.private_key =
                [parent |-> derive.xprivkey[i].private_key,
                 child |-> [hardened |-> TRUE,
                            index |-> IF derive.child_key[i] = "NodeChildKey"
                                      THEN 0 ELSE 1]]
          /\ derive.child_key[i] = "FederationChildKey" =>
                derive.child[i].mnemonic # RootMnemonic(SeedOf(i))
    /\ (BothChildren /\ derive.xprivkey[1] = derive.xprivkey[2]) =>
          (derive.child[1].key = derive.child[2].key
              <=> derive.child_key[1] = derive.child_key[2])
    /\ (BothChildren /\ derive.child_key = <<"FederationChildKey", "FederationChildKey">>
          /\ SeedOf(1) # SeedOf(2)) =>
          derive.child[1].mnemonic # derive.child[2].mnemonic

\* the node key and the federation key of one xpriv
C21_Witness ==
    /\ BothChildren
    /\ derive.xprivkey[1] = derive.xprivkey[2]
    /\ derive.child_key = <<"NodeChildKey", "FederationChildKey">>
    /\ derive.child[1].key # derive.child[2].key

(***************************************************************************)
(* Two handles begun on a fresh adapter before either commits, each with   *)
(* one insert of a key of its own                                          *)
(***************************************************************************)
\* the state after begin_transaction on both handles and one
\* raw_insert_bytes on each
OverlapInit ==
    /\ ext = NoSnapshot
    /\ mem = NewAdapter(NoSnapshot).mem
    /\ version = NewAdapter(NoSnapshot).version
    /\ loaded = NewAdapter(NoSnapshot).version
    /\ \E k1 \in KeySet, k2 \in KeySet, v1 \in ValSet, v2 \in ValSet :
          /\ k1 # k2
          /\ tx = <<TxInsert(MemBegin(mem), k1, v1), TxInsert(MemBegin(mem), k2, v2)>>
    /\ okCommits = 0
    /\ attempts = 0
    /\ writes = 2
    /\ lastCommit = NoCommit
    /\ ClientInit
    /\ payments = [h \in Hashes |-> [b \in BOOLEAN |-> NoRecord]]
    /\ proc = NoProc /\ boot = NoBoot /\ derive = NoDerive /\ NoCommits

\* the two handles commit, step by step and in any order
OverlapNext ==
    \/ \E t \in TxIds : CommitMem(t)
    \/ \E t \in TxIds, serialized \in BOOLEAN : CommitVersion(t, serialized)
    \/ \E t \in TxIds, landed \in BOOLEAN : CommitWrite(t, landed)

\* both handles have committed with success
BothCommitted ==
    /\ AllReturned
    /\ \A t \in TxIds : ~tx[t].open
    /\ okCommits = 2

TimedStatesOf(kind) ==
    {s \in StatesOf(kind) :
        s.name \in {"Created", "Funding", "Funded", "Claimed", "Preimage",
                    "Success", "Canceled", "RefundError"}}

\* an update stream: the states it brings, at most MaxStream different ones
\* in a row; an `endless` stream brings them round and round and never ends
TimedStreams(kind, endless) ==
    UNION {[1..n -> TimedStatesOf(kind)] :
              n \in (IF endless THEN 1 ELSE 0)..MaxStream}

\* a call of process_outcome with the sleep(timeout) it pins before the
\* loop.  process_outcome takes whatever stream the subscription hands it: a
\* `gapless` stream has its next item ready at every poll once its first
\* item is there, any other stream has nothing ready until the next item
\* arrives; `first` tells whether the first item is ready at the first poll;
\* `turn` is the parity of the iterations the loop has made, and `late`
\* tells whether a state was applied after the sleep had elapsed
TimedCall(kind, sub, endless, gapless, first) ==
    ProcCall(kind, sub)
    @@ [expired |-> FALSE, endless |-> endless, gapless |-> gapless,
        ready |-> first, turn |-> 0, late |-> FALSE]

TimedInit ==
    \E kind \in StreamKinds :
        \/ \E endless \in BOOLEAN, gapless \in BOOLEAN :
              \E states \in TimedStreams(kind, endless), first \in {FALSE, gapless} :
                  proc = TimedCall(kind, [sub |-> "Stream", states |-> states,
                                          cut |-> 0], endless, gapless, first)
        \/ \E outcome \in TimedStatesOf(kind) :
              proc = TimedCall(kind, [sub |-> "Outcome", outcome |-> outcome],
                               FALSE, FALSE, FALSE)

\* a timer that would start anew with every state that arrives
TimerRestarted(expired) == FALSE

\* the timer after an iteration: the select borrows the one pinned future
TimerAfterState(expired) == expired

\* the timeout elapses while the loop is running
TimerExpires ==
    /\ proc.stage = "running"
    /\ proc.sub.sub = "Stream"
    /\ ~proc.expired
    /\ proc' = [proc EXCEPT !.expired = TRUE]
    /\ UNCHANGED nonProcVars

\* the next item of the stream, or its end, arrives
StreamReady ==
    /\ proc.stage = "running"
    /\ proc.sub.sub = "Stream"
    /\ ~proc.ready
    /\ proc' = [proc EXCEPT !.ready = TRUE]
    /\ UNCHANGED nonProcVars

\* select polls s.next() first and the sleep second: the timer wins only at
\* a poll where the stream has nothing ready and the sleep has finished
TimerWins == proc.expired /\ ~proc.ready /\ ProcTimeout

\* select hands over the item the stream has ready, whether or not the
\* sleep has finished: process_fn, then the break test
TimedApply ==
    /\ proc.stage = "running"
    /\ proc.sub.sub = "Stream"
    /\ proc.ready
    /\ proc.rest # <<>>
    /\ LET next == ProcessFn(proc.kind, Head(proc.rest), proc.invoice) IN
       proc' = [proc EXCEPT !.invoice = next,
                            !.rest = IF proc.endless THEN Append(Tail(@), Head(@))
                                     ELSE Tail(@),
                            !.ready = proc.gapless,
                            !.turn = 1 - @,
                            !.late = @ \/ proc.expired,
                            !.expired = TimerAfterState(@),
                            !.stage = IF BreakOn(next.status) THEN "returned" ELSE @]
    /\ UNCHANGED nonProcVars

\* select hands over None: a finite stream has ended
TimedStreamEnd == proc.ready /\ ProcStreamEnd

TimedNext ==
    \/ ProcOutcome
    \/ TimerExpires
    \/ StreamReady
    \/ TimerWins
    \/ TimedApply
    \/ TimedStreamEnd

\* the task is polled: a resolved outcome is handled, an item that is ready
\* is taken, the sleep elapses, and as the loop polls again right after
\* every item a poll that finds the sleep finished and the stream with
\* nothing ready is not missed for ever; when items arrive is up to the
\* stream
TimedFairness ==
    /\ WF_vars(ProcOutcome)
    /\ WF_vars(TimerExpires)
    /\ WF_vars(TimedApply)
    /\ WF_vars(TimedStreamEnd)
    /\ SF_vars(TimerWins)

RepeatedCheckActivity == CheckActivity(FALSE)

\* an iteration of a sweep that wrote to the payment store
SweepPersists ==
    (\E landed \in BOOLEAN : CheckActivityIterate(landed)) /\ payments' # payments

SweepNext ==
    \/ \E h \in Hashes, created \in BOOLEAN, landed \in BOOLEAN : GetInvoice(h, created, landed)
    \/ \E h \in Hashes, ptype \in {"Lightning", "Internal"}, initiated \in BOOLEAN,
          landed \in BOOLEAN : PayInvoiceStart(h, ptype, initiated, landed)
    \/ \E landed \in BOOLEAN : PayInvoiceFinish(landed)
    \/ PayInvoiceDropped
    \/ \E i \in 1..MaxOps, s \in AllStates : OperationAdvances(i, s)
    \/ RepeatedCheckActivity
    \/ CheckActivityListed
    \/ \E landed \in BOOLEAN : CheckActivityIterate(landed)

\* pay_invoice for at most MaxPaid invoices, with check_activity called
\* periodically
PeriodicNext ==
    \/ \E h \in 1..MaxPaid, ptype \in {"Lightning", "Internal"}, initiated \in BOOLEAN,
          landed \in BOOLEAN : PayInvoiceStart(h, ptype, initiated, landed)
    \/ \E landed \in BOOLEAN : PayInvoiceFinish(landed)
    \/ PayInvoiceDropped
    \/ \E i \in 1..MaxOps, s \in AllStates : OperationAdvances(i, s)
    \/ RepeatedCheckActivity
    \/ CheckActivityListed
    \/ \E landed \in BOOLEAN : CheckActivityIterate(landed)

\* the federation drives every operation to its end, the higher layer goes
\* on calling check_activity and every call it makes is polled to its end,
\* and of the iterations that can write (subscription answered, states read,
\* store write landed) one eventually happens
SweepFairness ==
    /\ WF_vars(\E i \in 1..MaxOps, s \in AllStates : OperationAdvances(i, s))
    /\ WF_vars(RepeatedCheckActivity)
    /\ WF_vars(CheckActivityListed)
    /\ WF_vars(\E landed \in BOOLEAN : CheckActivityIterate(landed))
    /\ SF_vars(SweepPersists)

\* the operations of the record stored under (h, inbound)
OperationsOf(log, h, inbound) ==
    {i \in 1..Len(log) :
        /\ IsLightning(log[i])
        /\ log[i].hash = h
        /\ log[i].variant = (IF inbound THEN "Receive" ELSE "Pay")}

\* the operation the record under (h, inbound) stands for: the latest one
OperationOf(log, h, inbound) ==
    log[CHOOSE i \in OperationsOf(log, h, inbound) :
            \A j \in OperationsOf(log, h, inbound) : j <= i]

\* the operation of the record is within the listing and has ended
OperationEnded(h, inbound) ==
    /\ OperationsOf(oplog, h, inbound) # {}
    /\ Len(oplog) <= FEDIMINT_OPERATIONS_LIST_MAX
    /\ OpDone(OperationOf(oplog, h, inbound))

\* the record under (h, inbound) has the terminal status of its operation
PersistedTerminal(h, inbound) ==
    /\ OperationEnded(h, inbound)
    /\ IsFinal(payments[h][inbound].status)
    /\ payments[h][inbound].status
          = StatusOf(StreamKind(OperationOf(oplog, h, inbound)),
                     LastState(OperationOf(oplog, h, inbound)))

\* C26: under repeated sweeps, a record stored as Pending or InFlight whose
\* operation is within the listing and has reached a terminal state is
\* eventually stored with the terminal status of that operation.
C26_PendingEventuallyPersistedTerminal ==
    \A h \in Hashes, inbound \in BOOLEAN :
        (IsPending(payments[h][inbound].status) /\ OperationEnded(h, inbound))
            ~> PersistedTerminal(h, inbound)

\* a sweep that has returned after running alone, and that started right
\* after a sweep that ran alone returned
SecondSweep ==
    /\ lastCall.op = "check_activity"
    /\ Returned(lastCall)
    /\ lastCall.alone
    /\ lastCall.first # None

\* C29 as stated: a sweep that follows a sweep over the same operation log
\* leaves the payment store as the first sweep left it.
C29_SecondSweepChangesNothing ==
    SecondSweep => payments = lastCall.base[1]

\* C29, amended: a sweep that follows a sweep over the same operation log
\* leaves the payment store as the first sweep left it, but for the payments
\* the first sweep left Pending or InFlight: whatever the second sweep
\* changes is the record of such a payment, it is the terminal record the
\* translator returned to the second sweep, and the first sweep either had
\* not got that record from the translator or had failed at a store write.
C29_SecondSweepWritesOnlyWhatFirstMissed ==
    SecondSweep =>
        LET first == lastCall.first[1]
            base == lastCall.base[1]
        IN  \A h \in Hashes, b \in BOOLEAN :
                payments[h][b] # base[h][b] =>
                    /\ IsPending(base[h][TRUE].status) \/ IsPending(base[h][FALSE].status)
                    /\ \E e \in lastCall.seen :
                          /\ e.upd.hash = h
                          /\ e.upd.inbound = b
                          /\ payments[h][b] = PaymentInfoFrom(e.upd)
                          /\ (e \notin first.seen \/ first.result # "Ok")

\* a second sweep that read again the terminal status the first had stored
C29_Witness ==
    /\ SecondSweep
    /\ lastCall.result = "Ok"
    /\ lastCall.first[1].result = "Ok"
    /\ \E e \in lastCall.seen :
          /\ e \in lastCall.first[1].seen
          /\ payments[e.upd.hash][e.upd.inbound] = PaymentInfoFrom(e.upd)

(***************************************************************************)
(* Specifications                                                          *)
(***************************************************************************)
AuxIdle == proc = NoProc /\ boot = NoBoot /\ derive = NoDerive /\ NoCommits

Init == StoreInit /\ ClientInit /\ AuxIdle

\* the storage adapter, with transactions run one after another
StoreSpec == Init /\ [][StoreNext]_vars

\* the federation client's payment operations
ClientSpec == Init /\ [][ClientNext]_vars

\* an adapter and a client at rest, with an empty payment store
QuietInit ==
    /\ StoreInit
    /\ ClientInit
    /\ payments = [h \in Hashes |-> [b \in BOOLEAN |-> NoRecord]]

\* process_outcome on every subscription result of at most MaxStream states
ProcStart ==
    QuietInit /\ ProcInit /\ boot = NoBoot /\ derive = NoDerive /\ NoCommits

ProcSpec == ProcStart /\ [][ProcNext]_vars

\* FederationClient::new over every stored snapshot, sound or damaged
BootSpec == BootInit /\ [][BootNext]_vars

\* create_federation_secret twice on every xpriv and pair of networks
KeyStart ==
    QuietInit /\ proc = NoProc /\ boot = NoBoot /\ NoCommits /\ DeriveInit

KeySpec == KeyStart /\ [][DeriveNext]_vars

\* transactions of one adapter that commit side by side
ConcurrentInit == QuietInit /\ AuxIdle

ConcurrentSpec == ConcurrentInit /\ [][ConcurrentNext]_vars

\* create_root_child_key twice, on every pair of xprivs and child kinds
ChildStart ==
    QuietInit /\ proc = NoProc /\ boot = NoBoot /\ NoCommits /\ ChildInit

ChildSpec == ChildStart /\ [][ChildNext]_vars

\* two handles begun side by side, each with its own key, then committed
OverlapSpec == OverlapInit /\ [][OverlapNext]_vars

\* process_outcome with its timer, on the streams of at most MaxStream states
\* and on those that bring their states round and round
TimedStart ==
    QuietInit /\ TimedInit /\ boot = NoBoot /\ derive = NoDerive /\ NoCommits

TimedSpec == TimedStart /\ [][TimedNext]_vars /\ TimedFairness

\* the payment operations with check_activity called again and again
SweepStart == Init

SweepSpec == SweepStart /\ [][SweepNext]_vars

\* payments of a wallet with an empty payment store, with check_activity
\* called without end
PeriodicStart == QuietInit /\ AuxIdle

PeriodicSpec == PeriodicStart /\ [][PeriodicNext]_vars /\ SweepFairness

\* the storage adapter with savepoints
SavepointStart == Init

SavepointSpec == SavepointStart /\ [][SavepointNext]_vars

====
